---- MODULE Spec2Model ----
(***************************************************************************)
(* Lifetime name resolution (librustc/middle/resolve_lifetime.rs).         *)
(*                                                                         *)
(* The pass walks the HIR of a crate item by item.  The model keeps the    *)
(* output map (defs, late_bound), the diagnostics emitted so far, and the  *)
(* walker's context (scope chain, trait_ref_hack, labels_in_fn).  The HIR  *)
(* is a tree of records; the node id of a node is its path from the crate  *)
(* root (a sequence of child indices), which is unique by construction.    *)
(* One action visits one item of krate.items, as krate's loop does.        *)
(*                                                                         *)
(* The default walks of hir::intravisit (walk_ty, walk_item, ...) that the *)
(* source calls are inlined in the visit operators, in intravisit's order. *)
(***************************************************************************)
EXTENDS Integers, Sequences, FiniteSets, TLC

VARIABLES
    items,            \* krate.items, the input
    static_in_const,  \* sess.features.static_in_const, an input
    idx,              \* position of krate's loop over the items
    defs,             \* map.defs
    late_bound,       \* map.late_bound
    diags,            \* the diagnostics the session has received
    scope,            \* visitor.scope
    trait_ref_hack,   \* visitor.trait_ref_hack
    labels_in_fn,     \* visitor.labels_in_fn
    log,              \* history: the scopes pushed by with()
    result            \* what krate returned, once it has

vars == <<items, static_in_const, idx, defs, late_bound, diags, scope, trait_ref_hack,
          labels_in_fn, log, result>>

----------------------------------------------------------------------------
(* Finite maps (NodeMap / FxHashMap) *)

EmptyMap == [x \in {} |-> x]

Put(m, k, v) == [x \in (DOMAIN m) \cup {k} |-> IF x = k THEN v ELSE m[x]]

Range(s) == {s[i] : i \in DOMAIN s}

\* Statements in sequence: v is what the statements so far have produced,
\* F the rest; v is computed before F runs
Then(v, F(_)) == IF v = v THEN F(v) ELSE v

----------------------------------------------------------------------------
(* Names.  An elided lifetime has the empty (invalid) name; 'static is the *)
(* reserved keyword name.                                                  *)

ElidedName == "_"
StaticLifetime == "static"

is_elided(name) == name = ElidedName

----------------------------------------------------------------------------
(* enum Region *)

Static == [r |-> "Static"]
EarlyBound(index, id) == [r |-> "EarlyBound", index |-> index, id |-> id]
LateBound(depth, id) == [r |-> "LateBound", depth |-> depth, id |-> id]
LateBoundAnon(depth, index) == [r |-> "LateBoundAnon", depth |-> depth, index |-> index]
Free(scope_data, id) == [r |-> "Free", scope |-> scope_data, id |-> id]

IsLate(reg) == reg.r \in {"LateBound", "LateBoundAnon"}

\* Region::early: the pair and the incremented index
Region_early(index, def, id) == <<def.name, EarlyBound(index, id)>>

\* a late that starts one binder too far out
Region_late_Deep(def, id) == <<def.name, LateBound(2, id)>>

\* Region::late
Region_late(def, id) == <<def.name, LateBound(1, id)>>

\* a late_anon that does not read the counter
Region_late_anon_Zero(i) == LateBoundAnon(1, 0)

\* Region::late_anon: the region for counter value i (the caller stores i + 1)
Region_late_anon(i) == LateBoundAnon(1, i)

\* Region::id; NoId stands for None
NoId == <<-1>>
Region_id(reg) == IF reg.r \in {"Static", "LateBoundAnon"} THEN NoId ELSE reg.id

\* a shift that leaves the depth alone
shifted_Unshifted(reg, amount) == reg

\* Region::shifted
shifted(reg, amount) ==
    IF IsLate(reg) THEN [reg EXCEPT !.depth = @ + amount] ELSE reg

\* Region::from_depth.  The subtraction is on u32: a result below 0 here
\* stands for the underflow (a panic, or the value wrapped by 2^32)
from_depth(reg, depth) ==
    IF IsLate(reg) THEN [reg EXCEPT !.depth = @ - (depth - 1)] ELSE reg

----------------------------------------------------------------------------
(* enum Scope, enum Elide.  A scope chain is a sequence, innermost last;   *)
(* Root is the empty chain.                                                *)

Binder(lifetimes) == [s |-> "Binder", lifetimes |-> lifetimes]
\* Body: id is the body's node id; fn_id and owner are what
\* hir_map.body_owner(id) and hir_map.get(fn_id) answer for it
Body(id, fn_id, owner) == [s |-> "Body", id |-> id, fn_id |-> fn_id, owner |-> owner]
Elision(elide) == [s |-> "Elision", elide |-> elide]

FreshLateAnon(counter) == [e |-> "FreshLateAnon", counter |-> counter]
Exact(reg) == [e |-> "Exact", region |-> reg]
ElideStatic == [e |-> "Static"]
ElideError(info) == [e |-> "Error", info |-> info]

ROOT_SCOPE == <<>>

\* collect() of an iterator of (name, Region) pairs into an FxHashMap:
\* a later pair with the same name replaces an earlier one
RECURSIVE Collect(_, _)
Collect(pairs, m) ==
    IF pairs = <<>> THEN m
    ELSE Collect(Tail(pairs), Put(m, Head(pairs)[1], Head(pairs)[2]))

----------------------------------------------------------------------------
(* The walker's context: LifetimeContext plus the session's diagnostics.   *)
(* log is a history of the scopes pushed by with().                        *)

Diag(level, code, at, covers) == [level |-> level, code |-> code, at |-> at, covers |-> covers]

Err(c, code, at) == [c EXCEPT !.diags = Append(@, Diag("error", code, at, {at}))]

\* struct_span_warn(...).emit()
Warn(c, code, at) == [c EXCEPT !.diags = Append(@, Diag("warning", code, at, {at}))]

\* LifetimeContext::insert_lifetime
insert_lifetime(c, id, def) == [c EXCEPT !.defs = Put(@, id, def)]

\* LifetimeContext::with, entering: the child context has the wrapped scope
\* and the parent's trait_ref_hack and labels
Enter(c, chain, sc, at) ==
    [c EXCEPT !.scope = Append(chain, sc),
              !.log = Append(@, [at |-> at, scope |-> sc, pairs |-> <<>>,
                                 labels |-> c.labels_in_fn])]

\* with() of a Binder collected from an iterator of (name, Region) pairs;
\* the log keeps the pairs in the iterator's order
EnterBinder(c, chain, pairs, at) ==
    [c EXCEPT !.scope = Append(chain, Binder(Collect(pairs, EmptyMap))),
              !.log = Append(@, [at |-> at, scope |-> Binder(Collect(pairs, EmptyMap)),
                                 pairs |-> pairs, labels |-> c.labels_in_fn])]

\* LifetimeContext::with, leaving: the parent gets the labels back and keeps
\* its own scope and trait_ref_hack; the counters of the enclosing Elision
\* scopes are cells shared with the child, so their values are kept
Leave(c, parent) ==
    [c EXCEPT !.scope = IF Len(c.scope) = Len(parent.scope) + 1
                        THEN SubSeq(c.scope, 1, Len(parent.scope))
                        ELSE parent.scope,
              !.trait_ref_hack = parent.trait_ref_hack]

----------------------------------------------------------------------------
(* Name lookup and elided-lifetime resolution *)

NoBody == [s |-> "None"]

\* the loop of resolve_lifetime_ref: walks the chain from position i outward
RECURSIVE LookupLoop(_, _, _, _, _)
LookupLoop(chain, i, name, late_depth, outermost_body) ==
    IF i = 0 THEN [found |-> FALSE, def |-> Static, body |-> outermost_body]
    ELSE LET sc == chain[i] IN
         CASE sc.s = "Body" -> LookupLoop(chain, i - 1, name, late_depth, sc)
           [] sc.s = "Binder" ->
                IF name \in DOMAIN sc.lifetimes
                THEN [found |-> TRUE, def |-> shifted(sc.lifetimes[name], late_depth),
                      body |-> outermost_body]
                ELSE LookupLoop(chain, i - 1, name, late_depth + 1, outermost_body)
           [] sc.s = "Elision" -> LookupLoop(chain, i - 1, name, late_depth, outermost_body)

FnOwners == {"ItemFn", "TraitMethod", "ImplMethod"}

\* a promotion of the late-bound regions only
FreeIfInBody_LateOnly(def, body) ==
    IF body # NoBody /\ body.owner \in FnOwners /\ IsLate(def)
    THEN Free([fn_id |-> body.fn_id, body_id |-> body.id], Region_id(def))
    ELSE def

\* the promotion of a resolved region used inside a body
FreeIfInBody(def, body) ==
    IF body # NoBody /\ body.owner \in FnOwners
    THEN Free([fn_id |-> body.fn_id, body_id |-> body.id], Region_id(def))
    ELSE def

\* a lookup that fails without a diagnostic
resolve_lifetime_ref_Silent(c, name, id) ==
    LET res == LookupLoop(c.scope, Len(c.scope), name, 0, NoBody) IN
    IF res.found
    THEN insert_lifetime(c, id, FreeIfInBody(res.def, res.body))
    ELSE c

\* LifetimeContext::resolve_lifetime_ref
resolve_lifetime_ref(c, name, id) ==
    LET res == LookupLoop(c.scope, Len(c.scope), name, 0, NoBody) IN
    IF res.found
    THEN insert_lifetime(c, id, FreeIfInBody(res.def, res.body))
    ELSE Err(c, "E0261", id)

\* insertion of one region for every lifetime of a list
RECURSIVE InsertAll(_, _, _)
InsertAll(c, ids, reg) ==
    IF ids = <<>> THEN c
    ELSE Then(insert_lifetime(c, Head(ids), reg), LAMBDA c1 :
         InsertAll(c1, Tail(ids), reg))

\* the FreshLateAnon arm: one fresh index per lifetime, from counter n on
RECURSIVE InsertFresh(_, _, _, _)
InsertFresh(c, ids, n, late_depth) ==
    IF ids = <<>> THEN c
    ELSE Then(insert_lifetime(c, Head(ids), shifted(Region_late_anon(n), late_depth)), LAMBDA c1 :
         InsertFresh(c1, Tail(ids), n + 1, late_depth))

\* an E0106 error for the first lifetime alone
MissingLifetime_FirstOnly(c, ids) ==
    [c EXCEPT !.diags = Append(@, Diag("error", "E0106", ids[1], {ids[1]}))]

\* the E0106 error of resolve_elided_lifetimes, at the first lifetime's span
MissingLifetime(c, ids) ==
    [c EXCEPT !.diags = Append(@, Diag("error", "E0106", ids[1], Range(ids)))]

\* the loop of resolve_elided_lifetimes
RECURSIVE ElidedLoop(_, _, _, _)
ElidedLoop(c, i, ids, late_depth) ==
    IF i = 0 THEN MissingLifetime(c, ids)
    ELSE LET sc == c.scope[i] IN
         CASE sc.s = "Body" -> c
           [] sc.s = "Binder" -> ElidedLoop(c, i - 1, ids, late_depth + 1)
           [] sc.s = "Elision" ->
                CASE sc.elide.e = "FreshLateAnon" ->
                       Then(InsertFresh(c, ids, sc.elide.counter, late_depth), LAMBDA c1 :
                       [c1 EXCEPT !.scope[i].elide.counter = @ + Len(ids)])
                  [] sc.elide.e = "Exact" ->
                       InsertAll(c, ids, shifted(sc.elide.region, late_depth))
                  [] sc.elide.e = "Static" ->
                       Then(IF c.static_in_const THEN c
                            ELSE Err(c, "static_in_const", ids[1]), LAMBDA c1 :
                       InsertAll(c1, ids, Static))
                  [] sc.elide.e = "Error" -> MissingLifetime(c, ids)

\* a resolution that reports the elided lifetimes met directly in a body
resolve_elided_lifetimes_NoInference(c, ids) ==
    IF ids = <<>> THEN c
    ELSE IF Len(c.scope) > 0 /\ c.scope[Len(c.scope)].s = "Body" THEN MissingLifetime(c, ids)
    ELSE ElidedLoop(c, Len(c.scope), ids, 0)

\* LifetimeContext::resolve_elided_lifetimes
resolve_elided_lifetimes(c, ids) ==
    IF ids = <<>> THEN c ELSE ElidedLoop(c, Len(c.scope), ids, 0)

\* LifetimeContext::visit_lifetime
visit_lifetime(c, name, id) ==
    IF is_elided(name) THEN resolve_elided_lifetimes(c, <<id>>)
    ELSE IF name = StaticLifetime THEN insert_lifetime(c, id, Static)
    ELSE resolve_lifetime_ref(c, name, id)

\* visit_lifetime over a list of lifetimes with ids p \o <<i>>
RECURSIVE VisitLifetimes(_, _, _, _)
VisitLifetimes(c, lts, p, i) ==
    IF i > Len(lts) THEN c
    ELSE Then(visit_lifetime(c, lts[i], p \o <<i>>), LAMBDA c1 :
         VisitLifetimes(c1, lts, p, i + 1))

----------------------------------------------------------------------------
(* Shadowing and declaration checks *)

\* a report that makes every shadowing an error
signal_shadowing_problem_AlwaysError(c, orig_kind, shadower_kind, at) == Err(c, "E0496", at)

\* signal_shadowing_problem: lifetime/lifetime is an error, the rest warn
signal_shadowing_problem(c, orig_kind, shadower_kind, at) ==
    IF orig_kind = "Lifetime" /\ shadower_kind = "Lifetime"
    THEN Err(c, "E0496", at)
    ELSE Warn(c, "shadow", at)

\* the scope loop shared by check_lifetime_def_for_shadowing and
\* check_if_label_shadows_lifetime: the position of the innermost Binder
\* that holds name, 0 when there is none
RECURSIVE BinderHolding(_, _, _)
BinderHolding(chain, i, name) ==
    IF i = 0 THEN 0
    ELSE IF chain[i].s = "Binder" /\ name \in DOMAIN chain[i].lifetimes THEN i
    ELSE BinderHolding(chain, i - 1, name)

\* LifetimeContext::check_lifetime_def_for_shadowing
check_lifetime_def_for_shadowing(c, old_scope, name, id) ==
    IF \E k \in DOMAIN c.labels_in_fn : c.labels_in_fn[k][1] = name
    THEN signal_shadowing_problem(c, "Label", "Lifetime", id)
    ELSE IF BinderHolding(old_scope, Len(old_scope), name) # 0
    THEN signal_shadowing_problem(c, "Lifetime", "Lifetime", id)
    ELSE c

\* check_lifetime_defs, the E0262 loop: every definition named 'static
RECURSIVE ReservedLoop(_, _, _, _)
ReservedLoop(c, lifetimes, p, k) ==
    IF k > Len(lifetimes) THEN c
    ELSE Then(IF lifetimes[k].name = StaticLifetime
              THEN Err(c, "E0262", p \o <<k>>) ELSE c, LAMBDA c1 :
         ReservedLoop(c1, lifetimes, p, k + 1))

\* an E0263 loop that reports a later declaration once, against the first
\* declaration of its name only
RECURSIVE TwiceLoop_FirstOnly(_, _, _, _, _)
TwiceLoop_FirstOnly(c, lifetimes, p, i, j) ==
    IF j > Len(lifetimes) THEN c
    ELSE Then(IF /\ lifetimes[i].name = lifetimes[j].name
                 /\ \A k \in 1..(i - 1) : lifetimes[k].name # lifetimes[j].name
              THEN Err(c, "E0263", p \o <<j>>) ELSE c, LAMBDA c1 :
         TwiceLoop_FirstOnly(c1, lifetimes, p, i, j + 1))

\* check_lifetime_defs, the E0263 loop over j in i+1 .. len
RECURSIVE TwiceLoop(_, _, _, _, _)
TwiceLoop(c, lifetimes, p, i, j) ==
    IF j > Len(lifetimes) THEN c
    ELSE Then(IF lifetimes[i].name = lifetimes[j].name
              THEN Err(c, "E0263", p \o <<j>>) ELSE c, LAMBDA c1 :
         TwiceLoop(c1, lifetimes, p, i, j + 1))

\* check_lifetime_defs, the bounds of one definition
RECURSIVE ResolveBounds(_, _, _, _)
ResolveBounds(c, bounds, p, j) ==
    IF j > Len(bounds) THEN c
    ELSE Then(resolve_lifetime_ref(c, bounds[j], p \o <<j>>), LAMBDA c1 :
         ResolveBounds(c1, bounds, p, j + 1))

\* LifetimeContext::check_lifetime_defs, from definition i on; definition i
\* has node id p \o <<i>> and its j-th bound p \o <<i, j>>
RECURSIVE check_lifetime_defs_from(_, _, _, _, _)
check_lifetime_defs_from(c, old_scope, lifetimes, p, i) ==
    IF i > Len(lifetimes) THEN c
    ELSE Then(ReservedLoop(c, lifetimes, p, 1), LAMBDA c1 :
         Then(TwiceLoop(c1, lifetimes, p, i, i + 1), LAMBDA c2 :
         Then(check_lifetime_def_for_shadowing(c2, old_scope, lifetimes[i].name, p \o <<i>>), LAMBDA c3 :
         Then(ResolveBounds(c3, lifetimes[i].bounds, p \o <<i>>, 1), LAMBDA c4 :
         check_lifetime_defs_from(c4, old_scope, lifetimes, p, i + 1)))))

check_lifetime_defs(c, old_scope, lifetimes, p) ==
    check_lifetime_defs_from(c, old_scope, lifetimes, p, 1)

----------------------------------------------------------------------------
(* HIR.  Node ids by position: for a node with id p,                       *)
(*   lifetime definitions   p \o <<0, i>>, their bounds p \o <<0, i, j>>   *)
(*   lifetime of & / object p \o <<0>>;  path lifetimes  p \o <<0, i>>     *)
(*   inputs / type args     p \o <<1, i>>;  pointee      p \o <<1>>        *)
(*   output                 p \o <<2>>;     qself        p \o <<2>>        *)
(*   bounds                 p \o <<3, i>>;  body         p \o <<4>>        *)
(*   the path of a trait reference p \o <<5>>; the segment after a qself   *)
(*   p \o <<3>>, so that the order of the ids is the order of the visit    *)

NoTy == [k |-> "None"]

LifetimeDef(name, bounds) == [name |-> name, bounds |-> bounds]

\* hir::TyRptr
TyRptr(lt, ty) == [k |-> "Rptr", lt |-> lt, ty |-> ty]
\* hir::TyPath(QPath::Resolved(None, path)): def is path.def, lts and tys the
\* angle-bracketed parameters of the final segment
TyPath(def, lts, tys) == [k |-> "Path", def |-> def, lts |-> lts, tys |-> tys]
\* hir::TyPath(QPath::Resolved(Some(qself), path)) and QPath::TypeRelative
TyProj(qself, lts) == [k |-> "Proj", qself |-> qself, lts |-> lts]
\* hir::TyBareFn
TyBareFn(lifetimes, inputs, output) ==
    [k |-> "BareFn", lifetimes |-> lifetimes, inputs |-> inputs, output |-> output]
\* hir::TyTraitObject
TyTraitObject(bounds, lt) == [k |-> "TraitObject", bounds |-> bounds, lt |-> lt]
\* hir::TyImplTrait
TyImplTrait(bounds) == [k |-> "ImplTrait", bounds |-> bounds]

\* hir::PathParameters
AngleBracketed(lts, tys) == [pk |-> "angle", lts |-> lts, tys |-> tys]
Parenthesized(inputs, output) == [pk |-> "paren", inputs |-> inputs, output |-> output]
\* hir::PolyTraitRef
PolyTraitRef(bound_lifetimes, params) ==
    [bound_lifetimes |-> bound_lifetimes, params |-> params]
\* hir::TyParamBound
TraitTyParamBound(ptr) == [b |-> "Trait", ptr |-> ptr]
RegionTyParamBound(lt) == [b |-> "Region", lt |-> lt]

\* the (name, Region::late) pairs of a list of definitions with ids p \o <<i>>
LatePairs(lifetimes, p) == [i \in DOMAIN lifetimes |-> Region_late(lifetimes[i], p \o <<i>>)]

Ids(lts, p) == [i \in DOMAIN lts |-> p \o <<i>>]

----------------------------------------------------------------------------
(* GatherLifetimes: the lifetimes of one argument type *)

NoLifetimes == [lifetimes |-> {}, have_bound_regions |-> FALSE]

Both(g, h) == [lifetimes |-> g.lifetimes \cup h.lifetimes,
               have_bound_regions |-> g.have_bound_regions \/ h.have_bound_regions]

\* a visit that normalizes every recorded lifetime, the captured ones too
Gather_visit_lifetime_NoGuard(d, id, binder_depth) ==
    IF id \notin DOMAIN d THEN NoLifetimes
    ELSE [lifetimes |-> {from_depth(d[id], binder_depth)}, have_bound_regions |-> FALSE]

\* GatherLifetimes::visit_lifetime
Gather_visit_lifetime(d, id, binder_depth) ==
    IF id \notin DOMAIN d THEN NoLifetimes
    ELSE IF IsLate(d[id]) /\ d[id].depth < binder_depth
    THEN [lifetimes |-> {}, have_bound_regions |-> TRUE]
    ELSE [lifetimes |-> {from_depth(d[id], binder_depth)}, have_bound_regions |-> FALSE]

RECURSIVE Gather_lifetimes(_, _, _, _, _)
Gather_lifetimes(d, lts, p, i, bd) ==
    IF i > Len(lts) THEN NoLifetimes
    ELSE Both(Gather_visit_lifetime(d, p \o <<i>>, bd), Gather_lifetimes(d, lts, p, i + 1, bd))

\* GatherLifetimes::visit_lifetime_def over a list: only the bounds
RECURSIVE Gather_lifetime_defs(_, _, _, _, _)
Gather_lifetime_defs(d, lifetimes, p, i, bd) ==
    IF i > Len(lifetimes) THEN NoLifetimes
    ELSE Both(Gather_lifetimes(d, lifetimes[i].bounds, p \o <<i>>, 1, bd),
              Gather_lifetime_defs(d, lifetimes, p, i + 1, bd))

RECURSIVE Gather_visit_ty(_, _, _, _)
RECURSIVE Gather_tys(_, _, _, _, _)
RECURSIVE Gather_visit_poly_trait_ref(_, _, _, _)
RECURSIVE Gather_bounds(_, _, _, _, _)

\* GatherLifetimes::visit_ty
Gather_visit_ty(d, ty, p, bd) ==
    CASE ty.k = "BareFn" ->
           Both(Both(Gather_tys(d, ty.inputs, p \o <<1>>, 1, bd + 1),
                     Gather_visit_ty(d, ty.output, p \o <<2>>, bd + 1)),
                Gather_lifetime_defs(d, ty.lifetimes, p \o <<0>>, 1, bd + 1))
      [] ty.k = "Rptr" ->
           Both(Gather_visit_lifetime(d, p \o <<0>>, bd), Gather_visit_ty(d, ty.ty, p \o <<1>>, bd))
      [] ty.k = "Path" ->
           Both(Gather_tys(d, ty.tys, p \o <<1>>, 1, bd), Gather_lifetimes(d, ty.lts, p \o <<0>>, 1, bd))
      [] ty.k = "Proj" ->
           Both(Gather_visit_ty(d, ty.qself, p \o <<2>>, bd),
                Gather_lifetimes(d, ty.lts, p \o <<3, 0>>, 1, bd))
      [] ty.k = "TraitObject" ->
           Both(Gather_bounds(d, [i \in DOMAIN ty.bounds |-> TraitTyParamBound(ty.bounds[i])],
                              p \o <<3>>, 1, bd),
                Gather_visit_lifetime(d, p \o <<0>>, bd))
      [] ty.k = "ImplTrait" -> Gather_bounds(d, ty.bounds, p \o <<3>>, 1, bd)
      [] OTHER -> NoLifetimes

Gather_tys(d, tys, p, i, bd) ==
    IF i > Len(tys) THEN NoLifetimes
    ELSE Both(Gather_visit_ty(d, tys[i], p \o <<i>>, bd), Gather_tys(d, tys, p, i + 1, bd))

\* GatherLifetimes::visit_poly_trait_ref
Gather_visit_poly_trait_ref(d, ptr, p, bd) ==
    Both(Gather_lifetime_defs(d, ptr.bound_lifetimes, p \o <<0>>, 1, bd + 1),
         IF ptr.params.pk = "angle"
         THEN Both(Gather_tys(d, ptr.params.tys, p \o <<5, 1>>, 1, bd + 1),
                   Gather_lifetimes(d, ptr.params.lts, p \o <<5, 0>>, 1, bd + 1))
         ELSE Both(Gather_tys(d, ptr.params.inputs, p \o <<5, 1>>, 1, bd + 1),
                   Gather_visit_ty(d, ptr.params.output, p \o <<5, 2>>, bd + 1)))

Gather_bounds(d, bounds, p, i, bd) ==
    IF i > Len(bounds) THEN NoLifetimes
    ELSE Both(IF bounds[i].b = "Trait"
              THEN Gather_visit_poly_trait_ref(d, bounds[i].ptr, p \o <<i>>, bd)
              ELSE Gather_visit_lifetime(d, p \o <<i, 0>>, bd),
              Gather_bounds(d, bounds, p, i + 1, bd))

----------------------------------------------------------------------------
(* The walker over types *)

\* the node that hir_map.get(get_parent_node(output.id)) finds for a
\* function-like construct: kind, and for methods has_self and the impl's
\* self type
FnParent(kind, has_self, impl_self) ==
    [kind |-> kind, has_self |-> has_self, impl_self |-> impl_self]

UnambiguousDefs == {"Struct", "Union", "Enum", "PrimTy"}

\* a test that knows the literal Self only
is_self_ty_LiteralOnly(def, impl_self) == def.kind = "SelfTy"

\* the closure is_self_ty of visit_fn_like_elision
is_self_ty(def, impl_self) ==
    \/ def.kind = "SelfTy"
    \/ /\ impl_self.k = "Path"
       /\ impl_self.def.kind \in UnambiguousDefs
       /\ def = impl_self.def

\* a match without the arm of the foreign items
IsForeignParent_NoArm(parent) == FALSE

\* the NodeForeignItem arm of the match on the output's parent node
IsForeignParent(parent) == parent.kind = "ForeignItem"

\* a fold that stores a region whenever the count is 1, 'static when the
\* argument at hand has no lifetime
RECURSIVE ArgLifetimes_Overwrite(_, _, _, _, _)
ArgLifetimes_Overwrite(d, inputs, p, i, acc) ==
    IF i > Len(inputs) THEN acc
    ELSE LET g == Gather_visit_ty(d, inputs[i], p \o <<i>>, 1)
             n == Cardinality(g.lifetimes)
             count == acc.count + n
         IN ArgLifetimes_Overwrite(d, inputs, p, i + 1,
                [count |-> count,
                 region |-> IF count = 1
                            THEN (IF n = 1 THEN <<CHOOSE l \in g.lifetimes : TRUE>>
                                  ELSE <<Static>>)
                            ELSE acc.region,
                 info |-> Append(acc.info, [index |-> i - 1, lifetime_count |-> n,
                                            have_bound_regions |-> g.have_bound_regions])])

\* the fold over the non-self arguments in visit_fn_like_elision:
\* acc = [count, region, info]
RECURSIVE ArgLifetimes(_, _, _, _, _)
ArgLifetimes(d, inputs, p, i, acc) ==
    IF i > Len(inputs) THEN acc
    ELSE LET g == Gather_visit_ty(d, inputs[i], p \o <<i>>, 1)
             n == Cardinality(g.lifetimes)
             count == acc.count + n
         IN ArgLifetimes(d, inputs, p, i + 1,
                [count |-> count,
                 region |-> IF count = 1 /\ n = 1
                            THEN <<CHOOSE l \in g.lifetimes : TRUE>> ELSE acc.region,
                 info |-> Append(acc.info, [index |-> i - 1, lifetime_count |-> n,
                                            have_bound_regions |-> g.have_bound_regions])])

\* a choice that takes the first lifetime found when there are several
ElideFromCount_First(a) ==
    IF a.count >= 1 /\ a.region # <<>> THEN Exact(a.region[1]) ELSE ElideError(a.info)

\* the choice between Elide::Exact and Elide::Error
ElideFromCount(a) ==
    IF a.count = 1 THEN Exact(a.region[1]) ELSE ElideError(a.info)


\* The visitor's dispatch: intravisit's walks call back into the visitor,
\* one method per kind of node; Visit runs the method of that name
RECURSIVE Visit(_, _, _)

VisitTy(c, ty, p) == Visit(c, "visit_ty", <<ty, p>>)
VisitTys(c, tys, p, i) == Visit(c, "walk_tys", <<tys, p, i>>)
VisitPathParameters(c, params, p) == Visit(c, "visit_path_parameters", <<params, p>>)
VisitPolyTraitRef(c, ptr, p) == Visit(c, "visit_poly_trait_ref", <<ptr, p>>)
VisitPolyTraitRefs(c, ptrs, p, i) == Visit(c, "walk_poly_trait_refs", <<ptrs, p, i>>)
VisitTyParamBounds(c, bounds, p, i) == Visit(c, "walk_ty_param_bounds", <<bounds, p, i>>)
VisitLifetimeDefs(c, lifetimes, p, i) == Visit(c, "walk_lifetime_defs", <<lifetimes, p, i>>)
VisitFnLikeElision(c, inputs, output, p, parent) == Visit(c, "visit_fn_like_elision", <<inputs, output, p, parent>>)
VisitTyParams(c, ty_params, g, i) == Visit(c, "walk_ty_params", <<ty_params, g, i>>)
VisitWherePredicate(c, pred, w) == Visit(c, "visit_where_predicate", <<pred, w>>)
VisitWherePredicates(c, preds, g, i) == Visit(c, "walk_where_predicates", <<preds, g, i>>)
VisitGenerics(c, generics, g) == Visit(c, "visit_generics", <<generics, g>>)
VisitNestedBody(c, body, b, fn_id, owner) == Visit(c, "visit_nested_body", <<body, b, fn_id, owner>>)
VisitExprs(c, exprs, b, i) == Visit(c, "walk_exprs", <<exprs, b, i>>)
VisitAssocItem(c, ai, p, parent) == Visit(c, "visit_assoc_item", <<ai, p, parent>>)
VisitAssocItems(c, ais, p, parent, i) == Visit(c, "walk_assoc_items", <<ais, p, parent, i>>)
VisitForeignItem(c, fi, p) == Visit(c, "visit_foreign_item", <<fi, p>>)
VisitForeignItems(c, fis, p, i) == Visit(c, "walk_foreign_items", <<fis, p, i>>)

\* the default visit_lifetime_def (walk_lifetime_def) over a list
walk_lifetime_defs(c, lifetimes, p, i) ==
    IF i > Len(lifetimes) THEN c
    ELSE Then(visit_lifetime(c, lifetimes[i].name, p \o <<i>>), LAMBDA c1 :
         Then(VisitLifetimes(c1, lifetimes[i].bounds, p \o <<i>>, 1), LAMBDA c2 :
         VisitLifetimeDefs(c2, lifetimes, p, i + 1)))

\* LifetimeContext::visit_ty
visit_ty(c, ty, p) ==
    CASE ty.k = "BareFn" ->
           Then(EnterBinder(c, c.scope, LatePairs(ty.lifetimes, p \o <<0>>), p), LAMBDA c1 :
           Then(check_lifetime_defs(c1, c.scope, ty.lifetimes, p \o <<0>>), LAMBDA c2 :
           Then(VisitFnLikeElision(c2, ty.inputs, ty.output, p, FnParent("Ty", FALSE, NoTy)), LAMBDA c3 :
           Then(VisitLifetimeDefs(c3, ty.lifetimes, p \o <<0>>, 1), LAMBDA c4 :
           Leave(c4, c)))))
      [] ty.k = "TraitObject" ->
           Then(VisitPolyTraitRefs(c, ty.bounds, p \o <<3>>, 1), LAMBDA c1 :
           IF ~is_elided(ty.lt) THEN visit_lifetime(c1, ty.lt, p \o <<0>>) ELSE c1)
      [] ty.k = "Rptr" ->
           Then(visit_lifetime(c, ty.lt, p \o <<0>>), LAMBDA c1 :
           VisitTy(c1, ty.ty, p \o <<1>>))
      [] ty.k = "Path" ->
           VisitPathParameters(c, AngleBracketed(ty.lts, ty.tys), p)
      [] ty.k = "Proj" ->
           Then(VisitTy(c, ty.qself, p \o <<2>>), LAMBDA c1 :
           VisitPathParameters(c1, AngleBracketed(ty.lts, <<>>), p \o <<3>>))
      [] ty.k = "ImplTrait" -> VisitTyParamBounds(c, ty.bounds, p \o <<3>>, 1)
      [] OTHER -> c

walk_tys(c, tys, p, i) ==
    IF i > Len(tys) THEN c
    ELSE Then(VisitTy(c, tys[i], p \o <<i>>), LAMBDA c1 :
         VisitTys(c1, tys, p, i + 1))

\* LifetimeContext::visit_path_parameters
visit_path_parameters(c, params, p) ==
    IF params.pk = "angle"
    THEN Then(IF \A i \in DOMAIN params.lts : is_elided(params.lts[i])
              THEN resolve_elided_lifetimes(c, Ids(params.lts, p \o <<0>>))
              ELSE VisitLifetimes(c, params.lts, p \o <<0>>, 1), LAMBDA c1 :
         VisitTys(c1, params.tys, p \o <<1>>, 1))
    ELSE VisitFnLikeElision(c, params.inputs, params.output, p, FnParent("TraitRef", FALSE, NoTy))

\* a visit of a trait reference that pushes its Binder whatever the sentinel
visit_poly_trait_ref_AlwaysBinder(c, ptr, p) ==
    Then(IF c.trait_ref_hack /\ ptr.bound_lifetimes # <<>> THEN Err(c, "E0316", p) ELSE c, LAMBDA c0 :
    Then(EnterBinder(c0, c.scope, LatePairs(ptr.bound_lifetimes, p \o <<0>>), p), LAMBDA c1 :
    Then(check_lifetime_defs(c1, c.scope, ptr.bound_lifetimes, p \o <<0>>), LAMBDA c2 :
    Then(VisitLifetimeDefs(c2, ptr.bound_lifetimes, p \o <<0>>, 1), LAMBDA c3 :
    Then(VisitPathParameters(c3, ptr.params, p \o <<5>>), LAMBDA c4 :
    Leave(c4, c))))))

\* LifetimeContext::visit_poly_trait_ref
visit_poly_trait_ref(c, ptr, p) ==
    IF ~c.trait_ref_hack \/ ptr.bound_lifetimes # <<>>
    THEN Then(IF c.trait_ref_hack THEN Err(c, "E0316", p) ELSE c, LAMBDA c0 :
         Then(EnterBinder(c0, c.scope, LatePairs(ptr.bound_lifetimes, p \o <<0>>), p), LAMBDA c1 :
         Then(check_lifetime_defs(c1, c.scope, ptr.bound_lifetimes, p \o <<0>>), LAMBDA c2 :
         Then(VisitLifetimeDefs(c2, ptr.bound_lifetimes, p \o <<0>>, 1), LAMBDA c3 :
         Then(VisitPathParameters(c3, ptr.params, p \o <<5>>), LAMBDA c4 :
         Leave(c4, c))))))
    ELSE VisitPathParameters(c, ptr.params, p \o <<5>>)

walk_poly_trait_refs(c, ptrs, p, i) ==
    IF i > Len(ptrs) THEN c
    ELSE Then(VisitPolyTraitRef(c, ptrs[i], p \o <<i>>), LAMBDA c1 :
         VisitPolyTraitRefs(c1, ptrs, p, i + 1))

\* the default visit_ty_param_bound (walk_ty_param_bound) over a list
walk_ty_param_bounds(c, bounds, p, i) ==
    IF i > Len(bounds) THEN c
    ELSE Then(IF bounds[i].b = "Trait"
              THEN VisitPolyTraitRef(c, bounds[i].ptr, p \o <<i>>)
              ELSE visit_lifetime(c, bounds[i].lt, p \o <<i, 0>>), LAMBDA c1 :
         VisitTyParamBounds(c1, bounds, p, i + 1))

\* LifetimeContext::visit_fn_like_elision; the inputs have ids p \o <<1, i>>
\* and the output p \o <<2>>
visit_fn_like_elision(c, inputs, output, p, parent) ==
    Then(Enter(c, c.scope, Elision(FreshLateAnon(0)), p \o <<1>>), LAMBDA a1 :
    Then(VisitTys(a1, inputs, p \o <<1>>, 1), LAMBDA a2 :
    LET arg_elide == a2.scope[Len(a2.scope)].elide
    IN
    Then(Leave(a2, c), LAMBDA c1 :
    LET out == p \o <<2>>
        WithElide(elide) == 
             Then(Enter(c1, c1.scope, Elision(elide), out), LAMBDA o1 :
             Then(VisitTy(o1, output, out), LAMBDA o2 :
             Leave(o2, c1)))
        has_self == parent.kind \in {"TraitMethod", "ImplMethod"} /\ parent.has_self
        self_id == p \o <<1, 1, 0>>
        self_rule == /\ has_self
                     /\ inputs[1].k = "Rptr"
                     /\ inputs[1].ty.k = "Path"
                     /\ is_self_ty(inputs[1].ty.def, parent.impl_self)
                     /\ self_id \in DOMAIN c1.defs
        first == IF has_self THEN 2 ELSE 1
    IN
    IF output = NoTy THEN c1
    ELSE IF IsForeignParent(parent) THEN WithElide(arg_elide)
    ELSE IF parent.kind \notin {"ItemFn", "TraitMethod", "ImplMethod", "Ty", "TraitRef"}
    THEN VisitTy(c1, output, out)
    ELSE IF self_rule THEN WithElide(Exact(c1.defs[self_id]))
    ELSE WithElide(ElideFromCount(
             ArgLifetimes(c1.defs, inputs, p \o <<1>>, first,
                          [count |-> 0, region |-> <<>>, info |-> <<>>]))))))

----------------------------------------------------------------------------
(* Generics *)

\* hir::Generics, hir::TyParam, hir::WherePredicate
Generics(lifetimes, ty_params, where_clause) ==
    [lifetimes |-> lifetimes, ty_params |-> ty_params, where_clause |-> where_clause]
NoGenerics == Generics(<<>>, <<>>, <<>>)
TyParam(bounds, default) == [bounds |-> bounds, default |-> default]
BoundPredicate(bound_lifetimes, bounded_ty, bounds) ==
    [w |-> "Bound", bound_lifetimes |-> bound_lifetimes, bounded_ty |-> bounded_ty,
     bounds |-> bounds]
RegionPredicate(lt, bounds) == [w |-> "Region", lt |-> lt, bounds |-> bounds]
EqPredicate(lhs_ty, rhs_ty) == [w |-> "Eq", lhs_ty |-> lhs_ty, rhs_ty |-> rhs_ty]

\* visit_generics, the type parameters: bounds, then the default
walk_ty_params(c, ty_params, g, i) ==
    IF i > Len(ty_params) THEN c
    ELSE Then(VisitTyParamBounds(c, ty_params[i].bounds, g \o <<1, i, 3>>, 1), LAMBDA c1 :
         Then(VisitTy(c1, ty_params[i].default, g \o <<1, i, 1>>), LAMBDA c2 :
         VisitTyParams(c2, ty_params, g, i + 1)))

\* a visit of one predicate that leaves the sentinel on behind a for<> list
visit_where_predicate_NoReset(c, pred, w) ==
    CASE pred.w = "Bound" ->
           IF pred.bound_lifetimes # <<>>
           THEN Then([c EXCEPT !.trait_ref_hack = TRUE], LAMBDA h :
                Then(EnterBinder(h, h.scope, LatePairs(pred.bound_lifetimes, w \o <<0>>), w), LAMBDA c1 :
                Then(check_lifetime_defs(c1, h.scope, pred.bound_lifetimes, w \o <<0>>), LAMBDA c2 :
                Then(VisitTy(c2, pred.bounded_ty, w \o <<1>>), LAMBDA c3 :
                Then(VisitTyParamBounds(c3, pred.bounds, w \o <<3>>, 1), LAMBDA c4 :
                Leave(c4, h))))))
           ELSE Then(VisitTy(c, pred.bounded_ty, w \o <<1>>), LAMBDA c1 :
                VisitTyParamBounds(c1, pred.bounds, w \o <<3>>, 1))
      [] pred.w = "Region" ->
           Then(visit_lifetime(c, pred.lt, w \o <<0>>), LAMBDA c1 :
           VisitLifetimes(c1, pred.bounds, w \o <<3>>, 1))
      [] pred.w = "Eq" ->
           Then(VisitTy(c, pred.lhs_ty, w \o <<1>>), LAMBDA c1 :
           VisitTy(c1, pred.rhs_ty, w \o <<2>>))

\* visit_generics, one where-clause predicate with node id w
visit_where_predicate(c, pred, w) ==
    CASE pred.w = "Bound" ->
           IF pred.bound_lifetimes # <<>>
           THEN Then([c EXCEPT !.trait_ref_hack = TRUE], LAMBDA h :
                Then(EnterBinder(h, h.scope, LatePairs(pred.bound_lifetimes, w \o <<0>>), w), LAMBDA c1 :
                Then(check_lifetime_defs(c1, h.scope, pred.bound_lifetimes, w \o <<0>>), LAMBDA c2 :
                Then(VisitTy(c2, pred.bounded_ty, w \o <<1>>), LAMBDA c3 :
                Then(VisitTyParamBounds(c3, pred.bounds, w \o <<3>>, 1), LAMBDA c4 :
                [Leave(c4, h) EXCEPT !.trait_ref_hack = FALSE])))))
           ELSE Then(VisitTy(c, pred.bounded_ty, w \o <<1>>), LAMBDA c1 :
                VisitTyParamBounds(c1, pred.bounds, w \o <<3>>, 1))
      [] pred.w = "Region" ->
           Then(visit_lifetime(c, pred.lt, w \o <<0>>), LAMBDA c1 :
           VisitLifetimes(c1, pred.bounds, w \o <<3>>, 1))
      [] pred.w = "Eq" ->
           Then(VisitTy(c, pred.lhs_ty, w \o <<1>>), LAMBDA c1 :
           VisitTy(c1, pred.rhs_ty, w \o <<2>>))

walk_where_predicates(c, preds, g, i) ==
    IF i > Len(preds) THEN c
    ELSE Then(VisitWherePredicate(c, preds[i], g \o <<2, i>>), LAMBDA c1 :
         VisitWherePredicates(c1, preds, g, i + 1))

\* LifetimeContext::visit_generics; g is the node id of the generics
visit_generics(c, generics, g) ==
    Then(VisitTyParams(c, generics.ty_params, g, 1), LAMBDA c1 :
    VisitWherePredicates(c1, generics.where_clause, g, 1))

----------------------------------------------------------------------------
(* insert_late_bound_lifetimes and its collectors.  The walks are those of *)
(* hir::intravisit; v names the visitor: "All" or "Constrained".           *)

NoRegions == [regions |-> {}, impl_trait |-> FALSE]

Plus(a, b) == [regions |-> a.regions \cup b.regions, impl_trait |-> a.impl_trait \/ b.impl_trait]

Names(lts) == [regions |-> Range(lts), impl_trait |-> FALSE]

RECURSIVE Collector_lifetime_defs(_)
Collector_lifetime_defs(lifetimes) ==
    IF lifetimes = <<>> THEN NoRegions
    ELSE Plus(Plus(Names(<<Head(lifetimes).name>>), Names(Head(lifetimes).bounds)),
              Collector_lifetime_defs(Tail(lifetimes)))

RECURSIVE Collector_visit_ty(_, _)
RECURSIVE Collector_walk_ty(_, _)
RECURSIVE Collector_tys(_, _)
RECURSIVE Collector_poly_trait_ref(_, _)
RECURSIVE Collector_bounds(_, _)

\* ConstrainedCollector::visit_ty and AllCollector::visit_ty
Collector_visit_ty(v, ty) ==
    IF v = "Constrained"
    THEN CASE ty.k = "Proj" -> NoRegions
           [] ty.k = "Path" -> Plus(Collector_tys(v, ty.tys), Names(ty.lts))
           [] OTHER -> Collector_walk_ty(v, ty)
    ELSE Plus([regions |-> {}, impl_trait |-> ty.k = "ImplTrait"], Collector_walk_ty(v, ty))

\* intravisit::walk_ty for a collector
Collector_walk_ty(v, ty) ==
    CASE ty.k = "Rptr" -> Plus(Names(<<ty.lt>>), Collector_visit_ty(v, ty.ty))
      [] ty.k = "Path" -> Plus(Collector_tys(v, ty.tys), Names(ty.lts))
      [] ty.k = "Proj" -> Plus(Collector_visit_ty(v, ty.qself), Names(ty.lts))
      [] ty.k = "BareFn" ->
           Plus(Plus(Collector_tys(v, ty.inputs), Collector_visit_ty(v, ty.output)),
                Collector_lifetime_defs(ty.lifetimes))
      [] ty.k = "TraitObject" ->
           Plus(Collector_bounds(v, [i \in DOMAIN ty.bounds |-> TraitTyParamBound(ty.bounds[i])]),
                Names(<<ty.lt>>))
      [] ty.k = "ImplTrait" -> Collector_bounds(v, ty.bounds)
      [] OTHER -> NoRegions

Collector_tys(v, tys) ==
    IF tys = <<>> THEN NoRegions
    ELSE Plus(Collector_visit_ty(v, Head(tys)), Collector_tys(v, Tail(tys)))

Collector_poly_trait_ref(v, ptr) ==
    Plus(Collector_lifetime_defs(ptr.bound_lifetimes),
         IF ptr.params.pk = "angle"
         THEN Plus(Collector_tys(v, ptr.params.tys), Names(ptr.params.lts))
         ELSE Plus(Collector_tys(v, ptr.params.inputs), Collector_visit_ty(v, ptr.params.output)))

Collector_bounds(v, bounds) ==
    IF bounds = <<>> THEN NoRegions
    ELSE Plus(IF Head(bounds).b = "Trait" THEN Collector_poly_trait_ref(v, Head(bounds).ptr)
              ELSE Names(<<Head(bounds).lt>>),
              Collector_bounds(v, Tail(bounds)))

\* intravisit::walk_where_predicate for AllCollector
Collector_where_predicate(pred) ==
    CASE pred.w = "Bound" ->
           Plus(Plus(Collector_visit_ty("All", pred.bounded_ty), Collector_bounds("All", pred.bounds)),
                Collector_lifetime_defs(pred.bound_lifetimes))
      [] pred.w = "Region" -> Plus(Names(<<pred.lt>>), Names(pred.bounds))
      [] pred.w = "Eq" ->
           Plus(Collector_visit_ty("All", pred.lhs_ty), Collector_visit_ty("All", pred.rhs_ty))

RECURSIVE Collector_where_clause(_)
Collector_where_clause(preds) ==
    IF preds = <<>> THEN NoRegions
    ELSE Plus(Collector_where_predicate(Head(preds)), Collector_where_clause(Tail(preds)))

RECURSIVE Collector_ty_params(_)
Collector_ty_params(ty_params) ==
    IF ty_params = <<>> THEN NoRegions
    ELSE Plus(Collector_bounds("All", Head(ty_params).bounds), Collector_ty_params(Tail(ty_params)))

\* the lifetime definitions with bounds, as appears_in_where_clause sees them
WithBounds(lifetimes) ==
    SelectSeq(lifetimes, LAMBDA def : def.bounds # <<>>)

\* a set that counts the lifetimes of projections and associated types too
constrained_by_input_All(inputs) == Collector_tys("All", inputs).regions

\* the three sets insert_late_bound_lifetimes computes for a declaration
constrained_by_input(inputs) == Collector_tys("Constrained", inputs).regions

appears_in_output(output) ==
    IF output = NoTy THEN NoRegions ELSE Collector_visit_ty("All", output)

appears_in_where_clause(generics) ==
    Plus(Plus(Collector_ty_params(generics.ty_params), Collector_where_clause(generics.where_clause)),
         Collector_lifetime_defs(WithBounds(generics.lifetimes))).regions

Issue32330(will_change, fn_def_id, name) ==
    IF will_change THEN [tag |-> "WillChange", fn_def_id |-> fn_def_id, region_name |-> name]
    ELSE [tag |-> "WontChange"]

\* a loop that forgets the impl Trait test
IsLateBound_NoImplTrait(name, inputs, output, generics) ==
    name \notin appears_in_where_clause(generics)

\* whether the loop of insert_late_bound_lifetimes reaches the insert for name
IsLateBound(name, inputs, output, generics) ==
    /\ name \notin appears_in_where_clause(generics)
    /\ ~appears_in_output(output).impl_trait

\* insert_late_bound_lifetimes, the loop over generics.lifetimes; definition
\* i has node id g \o <<0, i>>
RECURSIVE insert_late_bound_lifetimes_from(_, _, _, _, _, _, _)
insert_late_bound_lifetimes_from(lb, fn_def_id, inputs, output, generics, g, i) ==
    IF i > Len(generics.lifetimes) THEN lb
    ELSE LET name == generics.lifetimes[i].name
             will_change == /\ name \notin constrained_by_input(inputs)
                            /\ name \in appears_in_output(output).regions
         IN
         Then(IF IsLateBound(name, inputs, output, generics)
              THEN Put(lb, g \o <<0, i>>, Issue32330(will_change, fn_def_id, name))
              ELSE lb, LAMBDA lb1 :
         insert_late_bound_lifetimes_from(lb1, fn_def_id, inputs, output,
                                          generics, g, i + 1))

insert_late_bound_lifetimes(lb, fn_def_id, inputs, output, generics, g) ==
    insert_late_bound_lifetimes_from(lb, fn_def_id, inputs, output, generics, g, 1)

----------------------------------------------------------------------------
(* Functions and methods *)

\* visit_early_late, the start of the early indices: parent is NoParent or
\* what hir_map.expect_item(parent_id) finds
NoParent == [item |-> "None"]

\* a start that forgets the Self of a trait
StartIndex_NoSelf(parent) ==
    IF parent.item \in {"Trait", "Impl"}
    THEN Len(parent.generics.lifetimes) + Len(parent.generics.ty_params) ELSE 0

StartIndex(parent) ==
    (IF parent.item = "Trait" THEN 1 ELSE 0)
    + (IF parent.item \in {"Trait", "Impl"}
       THEN Len(parent.generics.lifetimes) + Len(parent.generics.ty_params) ELSE 0)

\* the map over generics.lifetimes in visit_early_late and visit_item:
\* late-bound definitions get Region::late, the others Region::early
RECURSIVE EarlyLatePairs(_, _, _, _, _)
EarlyLatePairs(lb, lifetimes, p, i, index) ==
    IF i > Len(lifetimes) THEN <<>>
    ELSE IF p \o <<i>> \in DOMAIN lb
    THEN <<Region_late(lifetimes[i], p \o <<i>>)>>
         \o EarlyLatePairs(lb, lifetimes, p, i + 1, index)
    ELSE <<Region_early(index, lifetimes[i], p \o <<i>>)>>
         \o EarlyLatePairs(lb, lifetimes, p, i + 1, index + 1)

\* LifetimeContext::visit_early_late up to the call of walk: classify, push
\* the Binder, check the definitions.  f is the function-like declaration
\* with node id p; its generics have node id p \o <<6>>
visit_early_late(c, p, parent, f) ==
    LET g == p \o <<6>>
        lb == insert_late_bound_lifetimes(c.late_bound, p, f.inputs, f.output, f.generics, g)
    IN
    Then([c EXCEPT !.late_bound = lb], LAMBDA c1 :
    Then(EnterBinder(c1, c.scope,
                     EarlyLatePairs(lb, f.generics.lifetimes, g \o <<0>>, 1, StartIndex(parent)), p), LAMBDA c2 :
    check_lifetime_defs(c2, c.scope, f.generics.lifetimes, g \o <<0>>)))

----------------------------------------------------------------------------
(* Bodies and loop labels *)

NoLabel == ""

NoFnBody == [b |-> "None"]
FnBody(exprs) == [b |-> "Body", exprs |-> exprs]

\* expressions: a type written in the body, a loop, a closure
ExprType(ty) == [e |-> "Type", ty |-> ty]
ExprLoop(label, exprs) == [e |-> "Loop", label |-> label, exprs |-> exprs]
ExprClosure(inputs, output, body) ==
    [e |-> "Closure", inputs |-> inputs, output |-> output, body |-> body]

\* GatherLabels::visit_expr, the loop over the prior labels
RECURSIVE LabelShadowsLabel(_, _, _, _)
LabelShadowsLabel(c, label, at, k) ==
    IF k > Len(c.labels_in_fn) THEN c
    ELSE Then(IF c.labels_in_fn[k][1] = label
              THEN signal_shadowing_problem(c, "Label", "Label", at) ELSE c, LAMBDA c1 :
         LabelShadowsLabel(c1, label, at, k + 1))

\* check_if_label_shadows_lifetime
check_if_label_shadows_lifetime(c, sc, label, at) ==
    IF BinderHolding(sc, Len(sc), label) # 0
    THEN signal_shadowing_problem(c, "Lifetime", "Label", at)
    ELSE c

\* GatherLabels over a list of expressions with ids b \o <<i>>
RECURSIVE GatherLabels(_, _, _, _)
GatherLabels(c, exprs, b, i) ==
    IF i > Len(exprs) THEN c
    ELSE LET ex == exprs[i]
             at == b \o <<i>>
         IN
         Then(IF ex.e = "Loop" /\ ex.label # NoLabel
              THEN Then(LabelShadowsLabel(c, ex.label, at, 1), LAMBDA s1 :
                   Then(check_if_label_shadows_lifetime(s1, c.scope, ex.label, at), LAMBDA s2 :
                   [s2 EXCEPT !.labels_in_fn = Append(@, <<ex.label, at>>)]))
              ELSE c, LAMBDA c1 :
         Then(IF ex.e = "Loop" THEN GatherLabels(c1, ex.exprs, at, 1) ELSE c1, LAMBDA c2 :
         GatherLabels(c2, exprs, b, i + 1)))

\* extract_labels
extract_labels(c, body, b) == GatherLabels(c, body.exprs, b, 1)


\* a body visit that keeps collecting into the list it found and leaves it so
visit_nested_body_NoSave(c, body, b, fn_id, owner) ==
    IF body = NoFnBody THEN c
    ELSE Then(extract_labels(c, body, b), LAMBDA c1 :
         Then(Enter(c1, c1.scope, Body(b, fn_id, owner), b), LAMBDA c2 :
         Then(VisitExprs(c2, body.exprs, b, 1), LAMBDA c3 :
         Leave(c3, c1))))

\* LifetimeContext::visit_nested_body; b is the body's node id, fn_id and
\* owner its owner's node id and kind
visit_nested_body(c, body, b, fn_id, owner) ==
    IF body = NoFnBody THEN c
    ELSE LET saved == c.labels_in_fn
         IN
         Then(extract_labels([c EXCEPT !.labels_in_fn = <<>>], body, b), LAMBDA c1 :
         Then(Enter(c1, c1.scope, Body(b, fn_id, owner), b), LAMBDA c2 :
         Then(VisitExprs(c2, body.exprs, b, 1), LAMBDA c3 :
         [Leave(c3, c1) EXCEPT !.labels_in_fn = saved])))

\* visit_body (walk_body, walk_expr) over the expressions of a body
walk_exprs(c, exprs, b, i) ==
    IF i > Len(exprs) THEN c
    ELSE LET ex == exprs[i]
             at == b \o <<i>>
         IN
         Then(CASE ex.e = "Type" -> VisitTy(c, ex.ty, at \o <<1>>)
                [] ex.e = "Loop" -> VisitExprs(c, ex.exprs, at, 1)
                [] ex.e = "Closure" ->
                     Then(VisitFnLikeElision(c, ex.inputs, ex.output, at,
                                             FnParent("Expr", FALSE, NoTy)), LAMBDA d1 :
                     VisitNestedBody(d1, ex.body, at \o <<4>>, at, "Expr")), LAMBDA c1 :
         VisitExprs(c1, exprs, b, i + 1))

----------------------------------------------------------------------------
(* Items *)

\* hir::ItemFn
ItemFn(generics, inputs, output, body) ==
    [item |-> "Fn", generics |-> generics, inputs |-> inputs, output |-> output, body |-> body]
\* hir::ItemTy, ItemEnum, ItemStruct, ItemUnion: kind, generics, the types inside
ItemAdt(kind, generics, tys) ==
    [item |-> "Adt", kind |-> kind, generics |-> generics, tys |-> tys]
\* hir::ItemTrait
ItemTrait(generics, bounds, trait_items) ==
    [item |-> "Trait", generics |-> generics, bounds |-> bounds, inner |-> trait_items]
\* hir::ItemImpl; trait_ref is the path parameters of the implemented trait
ItemImpl(generics, trait_ref, self_ty, impl_items) ==
    [item |-> "Impl", generics |-> generics, trait_ref |-> trait_ref, self_ty |-> self_ty,
     inner |-> impl_items]
\* hir::ItemStatic, ItemConst
ItemStatic(ty, body) == [item |-> "Static", ty |-> ty, body |-> body]
\* hir::ItemForeignMod
ItemForeignMod(foreign_items) == [item |-> "ForeignMod", inner |-> foreign_items]
\* hir::ItemMod, ItemUse, ItemExternCrate
ItemMod == [item |-> "Mod"]

\* trait and impl items
Method(generics, inputs, output, body, has_self) ==
    [ai |-> "Method", generics |-> generics, inputs |-> inputs, output |-> output,
     body |-> body, has_self |-> has_self]
AssocConst(ty, body) == [ai |-> "Const", ty |-> ty, body |-> body]
AssocType(bounds, ty) == [ai |-> "Type", bounds |-> bounds, ty |-> ty]

\* foreign items
ForeignItemFn(generics, inputs, output) ==
    [fi |-> "Fn", generics |-> generics, inputs |-> inputs, output |-> output]
ForeignItemStatic(ty) == [fi |-> "Static", ty |-> ty]

\* visit_item, the ItemFn arm, with walk_item's order: the declaration, the
\* generics, the body
visit_item_fn(c, item, p) ==
    Then(visit_early_late(c, p, NoParent, item), LAMBDA c1 :
    Then(VisitFnLikeElision(c1, item.inputs, item.output, p, FnParent("ItemFn", FALSE, NoTy)), LAMBDA c2 :
    Then(VisitGenerics(c2, item.generics, p \o <<6>>), LAMBDA c3 :
    Then(VisitNestedBody(c3, item.body, p \o <<4>>, p, "ItemFn"), LAMBDA c4 :
    Leave(c4, c)))))

\* LifetimeContext::visit_trait_item and visit_impl_item; parent is the
\* enclosing trait or impl
visit_assoc_item(c, ai, p, parent) ==
    LET kind == IF parent.item = "Trait" THEN "TraitMethod" ELSE "ImplMethod"
        fp == FnParent(kind, IF ai.ai = "Method" THEN ai.has_self ELSE FALSE,
                       IF parent.item = "Impl" THEN parent.self_ty ELSE NoTy)
    IN CASE ai.ai = "Method" ->
              Then(visit_early_late(c, p, parent, ai), LAMBDA c1 :
              IF ai.body = NoFnBody
              THEN Then(VisitGenerics(c1, ai.generics, p \o <<6>>), LAMBDA r1 :
                   Then(VisitFnLikeElision(r1, ai.inputs, ai.output, p, fp), LAMBDA r2 :
                   Leave(r2, c)))
              ELSE Then(VisitFnLikeElision(c1, ai.inputs, ai.output, p, fp), LAMBDA p1 :
                   Then(VisitGenerics(p1, ai.generics, p \o <<6>>), LAMBDA p2 :
                   Then(VisitNestedBody(p2, ai.body, p \o <<4>>, p, kind), LAMBDA p3 :
                   Leave(p3, c)))))
         [] ai.ai = "Const" ->
              Then(VisitTy(c, ai.ty, p \o <<1>>), LAMBDA c1 :
              VisitNestedBody(c1, ai.body, p \o <<4>>, p, "AssocConst"))
         [] ai.ai = "Type" ->
              Then(VisitTyParamBounds(c, ai.bounds, p \o <<3>>, 1), LAMBDA c1 :
              VisitTy(c1, ai.ty, p \o <<1>>))

walk_assoc_items(c, ais, p, parent, i) ==
    IF i > Len(ais) THEN c
    ELSE Then(VisitAssocItem(c, ais[i], p \o <<7, i>>, parent), LAMBDA c1 :
         VisitAssocItems(c1, ais, p, parent, i + 1))

\* the (name, Region::early) pairs of an item's generics
EarlyPairs(item, p) ==
    EarlyLatePairs(EmptyMap, item.generics.lifetimes, p \o <<6, 0>>, 1,
                   IF item.item = "Trait" THEN 1 ELSE 0)

\* visit_item, the arm of the items with only early-bound parameters
visit_item_early(c, item, p) ==
    LET g == p \o <<6>>
    IN
    Then(EnterBinder([c EXCEPT !.scope = ROOT_SCOPE], ROOT_SCOPE, EarlyPairs(item, p), p), LAMBDA c1 :
    Then(check_lifetime_defs(c1, c.scope, item.generics.lifetimes, g \o <<0>>), LAMBDA c2 :
    Then(CASE item.item = "Adt" ->
                IF item.kind = "Ty"
                THEN Then(VisitTys(c2, item.tys, p \o <<1>>, 1), LAMBDA t1 :
                     VisitGenerics(t1, item.generics, g))
                ELSE Then(VisitGenerics(c2, item.generics, g), LAMBDA g1 :
                     VisitTys(g1, item.tys, p \o <<1>>, 1))
           [] item.item = "Trait" ->
                Then(VisitGenerics(c2, item.generics, g), LAMBDA g1 :
                Then(VisitTyParamBounds(g1, item.bounds, p \o <<3>>, 1), LAMBDA b1 :
                VisitAssocItems(b1, item.inner, p, item, 1)))
           [] item.item = "Impl" ->
                Then(VisitGenerics(c2, item.generics, g), LAMBDA g1 :
                Then(VisitPathParameters(g1, item.trait_ref, p \o <<5>>), LAMBDA r1 :
                Then(VisitTy(r1, item.self_ty, p \o <<2>>), LAMBDA r2 :
                VisitAssocItems(r2, item.inner, p, item, 1)))), LAMBDA c3 :
    Leave(c3, c))))

\* an arm that walks the item without the Elision scope
visit_item_static_NoScope(c, item, p) ==
    Then(VisitTy(c, item.ty, p \o <<1>>), LAMBDA c2 :
    VisitNestedBody(c2, item.body, p \o <<4>>, p, "ItemStatic"))

\* visit_item, the ItemStatic / ItemConst arm
visit_item_static(c, item, p) ==
    Then(Enter([c EXCEPT !.scope = ROOT_SCOPE], ROOT_SCOPE, Elision(ElideStatic), p), LAMBDA c1 :
    Then(VisitTy(c1, item.ty, p \o <<1>>), LAMBDA c2 :
    Then(VisitNestedBody(c2, item.body, p \o <<4>>, p, "ItemStatic"), LAMBDA c3 :
    Leave(c3, c))))

\* LifetimeContext::visit_foreign_item
visit_foreign_item(c, fi, p) ==
    IF fi.fi = "Fn"
    THEN Then(visit_early_late(c, p, NoParent, fi), LAMBDA c1 :
         Then(VisitGenerics(c1, fi.generics, p \o <<6>>), LAMBDA c2 :
         Then(VisitFnLikeElision(c2, fi.inputs, fi.output, p,
                                 FnParent("ForeignItem", FALSE, NoTy)), LAMBDA c3 :
         Leave(c3, c))))
    ELSE VisitTy(c, fi.ty, p \o <<1>>)

walk_foreign_items(c, fis, p, i) ==
    IF i > Len(fis) THEN c
    ELSE Then(VisitForeignItem(c, fis[i], p \o <<7, i>>), LAMBDA c1 :
         VisitForeignItems(c1, fis, p, i + 1))

Visit(c, method, a) ==
    CASE method = "visit_ty" -> visit_ty(c, a[1], a[2])
      [] method = "walk_tys" -> walk_tys(c, a[1], a[2], a[3])
      [] method = "visit_path_parameters" -> visit_path_parameters(c, a[1], a[2])
      [] method = "visit_poly_trait_ref" -> visit_poly_trait_ref(c, a[1], a[2])
      [] method = "walk_poly_trait_refs" -> walk_poly_trait_refs(c, a[1], a[2], a[3])
      [] method = "walk_ty_param_bounds" -> walk_ty_param_bounds(c, a[1], a[2], a[3])
      [] method = "walk_lifetime_defs" -> walk_lifetime_defs(c, a[1], a[2], a[3])
      [] method = "visit_fn_like_elision" -> visit_fn_like_elision(c, a[1], a[2], a[3], a[4])
      [] method = "walk_ty_params" -> walk_ty_params(c, a[1], a[2], a[3])
      [] method = "visit_where_predicate" -> visit_where_predicate(c, a[1], a[2])
      [] method = "walk_where_predicates" -> walk_where_predicates(c, a[1], a[2], a[3])
      [] method = "visit_generics" -> visit_generics(c, a[1], a[2])
      [] method = "visit_nested_body" -> visit_nested_body(c, a[1], a[2], a[3], a[4])
      [] method = "walk_exprs" -> walk_exprs(c, a[1], a[2], a[3])
      [] method = "visit_assoc_item" -> visit_assoc_item(c, a[1], a[2], a[3])
      [] method = "walk_assoc_items" -> walk_assoc_items(c, a[1], a[2], a[3], a[4])
      [] method = "visit_foreign_item" -> visit_foreign_item(c, a[1], a[2])
      [] method = "walk_foreign_items" -> walk_foreign_items(c, a[1], a[2], a[3])

\* visit_item, the arm of the items without lifetime parameters
visit_item_plain(c, item, p) ==
    IF item.item = "ForeignMod" THEN VisitForeignItems(c, item.inner, p, 1) ELSE c

----------------------------------------------------------------------------
(* The lifetimes written in a crate, by node id: what the HIR holds,       *)
(* whether or not the pass visits it.  site tells where a lifetime stands: *)
(* "Decl" a declaration, "DefBound" a bound in a declaration ('a: 'b),     *)
(* "Ref" the lifetime of a reference or a path, "Object" the bound of a    *)
(* trait object, "Bound" a region bound (T: 'a), "Pred" either side of a   *)
(* where-clause region predicate.                                          *)

Occ(id, name, site) == [id |-> id, name |-> name, site |-> site]

LifetimeOccs(lts, p, site) == {Occ(p \o <<i>>, lts[i], site) : i \in DOMAIN lts}

LifetimeDefOccs(lifetimes, p) ==
    UNION {{Occ(p \o <<i>>, lifetimes[i].name, "Decl")}
           \cup LifetimeOccs(lifetimes[i].bounds, p \o <<i>>, "DefBound") : i \in DOMAIN lifetimes}

RECURSIVE TyOccs(_, _)
RECURSIVE PolyTraitRefOccs(_, _)
RECURSIVE BoundOccs(_, _)

TysOccs(tys, p) == UNION {TyOccs(tys[i], p \o <<i>>) : i \in DOMAIN tys}

TyOccs(ty, p) ==
    CASE ty.k = "Rptr" -> {Occ(p \o <<0>>, ty.lt, "Ref")} \cup TyOccs(ty.ty, p \o <<1>>)
      [] ty.k = "Path" -> LifetimeOccs(ty.lts, p \o <<0>>, "Ref") \cup TysOccs(ty.tys, p \o <<1>>)
      [] ty.k = "Proj" ->
           TyOccs(ty.qself, p \o <<2>>) \cup LifetimeOccs(ty.lts, p \o <<3, 0>>, "Ref")
      [] ty.k = "BareFn" ->
           LifetimeDefOccs(ty.lifetimes, p \o <<0>>) \cup TysOccs(ty.inputs, p \o <<1>>)
           \cup TyOccs(ty.output, p \o <<2>>)
      [] ty.k = "TraitObject" ->
           UNION {PolyTraitRefOccs(ty.bounds[i], p \o <<3, i>>) : i \in DOMAIN ty.bounds}
           \cup {Occ(p \o <<0>>, ty.lt, "Object")}
      [] ty.k = "ImplTrait" -> BoundOccs(ty.bounds, p \o <<3>>)
      [] OTHER -> {}

PolyTraitRefOccs(ptr, p) ==
    LifetimeDefOccs(ptr.bound_lifetimes, p \o <<0>>)
    \cup IF ptr.params.pk = "angle"
         THEN LifetimeOccs(ptr.params.lts, p \o <<5, 0>>, "Ref")
              \cup TysOccs(ptr.params.tys, p \o <<5, 1>>)
         ELSE TysOccs(ptr.params.inputs, p \o <<5, 1>>) \cup TyOccs(ptr.params.output, p \o <<5, 2>>)

BoundOccs(bounds, p) ==
    UNION {IF bounds[i].b = "Trait" THEN PolyTraitRefOccs(bounds[i].ptr, p \o <<i>>)
           ELSE {Occ(p \o <<i, 0>>, bounds[i].lt, "Bound")} : i \in DOMAIN bounds}

WherePredicateOccs(pred, w) ==
    CASE pred.w = "Bound" ->
           LifetimeDefOccs(pred.bound_lifetimes, w \o <<0>>) \cup TyOccs(pred.bounded_ty, w \o <<1>>)
           \cup BoundOccs(pred.bounds, w \o <<3>>)
      [] pred.w = "Region" ->
           {Occ(w \o <<0>>, pred.lt, "Pred")} \cup LifetimeOccs(pred.bounds, w \o <<3>>, "Pred")
      [] pred.w = "Eq" -> TyOccs(pred.lhs_ty, w \o <<1>>) \cup TyOccs(pred.rhs_ty, w \o <<2>>)

GenericsOccs(generics, g) ==
    LifetimeDefOccs(generics.lifetimes, g \o <<0>>)
    \cup UNION {BoundOccs(generics.ty_params[i].bounds, g \o <<1, i, 3>>)
                \cup TyOccs(generics.ty_params[i].default, g \o <<1, i, 1>>)
                : i \in DOMAIN generics.ty_params}
    \cup UNION {WherePredicateOccs(generics.where_clause[i], g \o <<2, i>>)
                : i \in DOMAIN generics.where_clause}

RECURSIVE BodyOccs(_, _)
RECURSIVE ExprsOccs(_, _)

ExprsOccs(exprs, b) ==
    UNION {LET ex == exprs[i]
               at == b \o <<i>>
           IN CASE ex.e = "Type" -> TyOccs(ex.ty, at \o <<1>>)
                [] ex.e = "Loop" -> ExprsOccs(ex.exprs, at)
                [] ex.e = "Closure" ->
                     TysOccs(ex.inputs, at \o <<1>>) \cup TyOccs(ex.output, at \o <<2>>)
                     \cup BodyOccs(ex.body, at \o <<4>>)
           : i \in DOMAIN exprs}

BodyOccs(body, b) == IF body = NoFnBody THEN {} ELSE ExprsOccs(body.exprs, b)

\* a function-like declaration with node id p: fn item, method, foreign fn
FnDeclOccs(f, p) ==
    GenericsOccs(f.generics, p \o <<6>>) \cup TysOccs(f.inputs, p \o <<1>>)
    \cup TyOccs(f.output, p \o <<2>>)

AssocItemOccs(ai, p) ==
    CASE ai.ai = "Method" -> FnDeclOccs(ai, p) \cup BodyOccs(ai.body, p \o <<4>>)
      [] ai.ai = "Const" -> TyOccs(ai.ty, p \o <<1>>) \cup BodyOccs(ai.body, p \o <<4>>)
      [] ai.ai = "Type" -> BoundOccs(ai.bounds, p \o <<3>>) \cup TyOccs(ai.ty, p \o <<1>>)

ForeignItemOccs(fi, p) ==
    IF fi.fi = "Fn" THEN FnDeclOccs(fi, p) ELSE TyOccs(fi.ty, p \o <<1>>)

ItemOccs(item, p) ==
    CASE item.item = "Fn" -> FnDeclOccs(item, p) \cup BodyOccs(item.body, p \o <<4>>)
      [] item.item = "Adt" -> GenericsOccs(item.generics, p \o <<6>>) \cup TysOccs(item.tys, p \o <<1>>)
      [] item.item = "Trait" ->
           GenericsOccs(item.generics, p \o <<6>>) \cup BoundOccs(item.bounds, p \o <<3>>)
           \cup UNION {AssocItemOccs(item.inner[i], p \o <<7, i>>) : i \in DOMAIN item.inner}
      [] item.item = "Impl" ->
           GenericsOccs(item.generics, p \o <<6>>)
           \cup PolyTraitRefOccs(PolyTraitRef(<<>>, item.trait_ref), p)
           \cup TyOccs(item.self_ty, p \o <<2>>)
           \cup UNION {AssocItemOccs(item.inner[i], p \o <<7, i>>) : i \in DOMAIN item.inner}
      [] item.item = "Static" -> TyOccs(item.ty, p \o <<1>>) \cup BodyOccs(item.body, p \o <<4>>)
      [] item.item = "ForeignMod" ->
           UNION {ForeignItemOccs(item.inner[i], p \o <<7, i>>) : i \in DOMAIN item.inner}
      [] OTHER -> {}

\* the lifetimes of the items krate's loop has visited so far
VisitedOccs == UNION {ItemOccs(items[i], <<i>>) : i \in 1..(idx - 1)}

\* the uses among them: every lifetime that is not a declaration
VisitedUses == {o \in VisitedOccs : o.site # "Decl"}

----------------------------------------------------------------------------
(* The pass: krate *)

Running == [k |-> "running"]

\* the visitor of krate, as a record
Ctx ==
    [defs |-> defs, late_bound |-> late_bound, diags |-> diags, log |-> log,
     scope |-> scope, trait_ref_hack |-> trait_ref_hack, labels_in_fn |-> labels_in_fn,
     static_in_const |-> static_in_const]

\* a session that counts no error
Errors_None(dg) == <<>>

Errors(dg) == SelectSeq(dg, LAMBDA d : d.level = "error")

\* one iteration of krate's loop has left the visitor as c
Visited(c) ==
    /\ defs' = c.defs
    /\ late_bound' = c.late_bound
    /\ diags' = c.diags
    /\ log' = c.log
    /\ scope' = c.scope
    /\ trait_ref_hack' = c.trait_ref_hack
    /\ labels_in_fn' = c.labels_in_fn
    /\ idx' = idx + 1
    /\ UNCHANGED <<items, static_in_const, result>>

AtItem(kinds) == result = Running /\ idx <= Len(items) /\ items[idx].item \in kinds

VisitItemFn ==
    AtItem({"Fn"}) /\ Visited(visit_item_fn(Ctx, items[idx], <<idx>>))

VisitItemPlain ==
    AtItem({"Mod", "ForeignMod"}) /\ Visited(visit_item_plain(Ctx, items[idx], <<idx>>))

VisitItemStatic ==
    AtItem({"Static"}) /\ Visited(visit_item_static(Ctx, items[idx], <<idx>>))

VisitItemEarly ==
    AtItem({"Adt", "Trait", "Impl"}) /\ Visited(visit_item_early(Ctx, items[idx], <<idx>>))

\* krate's return: sess.track_errors gives Err(count) when errors were emitted
Return ==
    /\ result = Running
    /\ idx > Len(items)
    /\ result' = IF Errors(diags) = <<>> THEN [k |-> "Ok", defs |-> defs, late_bound |-> late_bound]
                 ELSE [k |-> "Err", count |-> Len(Errors(diags))]
    /\ UNCHANGED <<items, static_in_const, idx, defs, late_bound, diags, scope,
                   trait_ref_hack, labels_in_fn, log>>

Next == VisitItemFn \/ VisitItemPlain \/ VisitItemStatic \/ VisitItemEarly \/ Return

----------------------------------------------------------------------------
(* The crates checked.  Lists are bounded by MaxItems, MaxArgs, MaxLifetimes *)
(* and MaxExprs; the types, bounds and expressions come from small sets    *)
(* that hold every shape the pass distinguishes.                           *)

MaxItems == 2
MaxArgs == 2
MaxLifetimes == 2
MaxExprs == 2
\* the longest list of plainly declared lifetimes, for the repeated names
MaxRepeats == 3

SeqsUpTo(S, n) == UNION {[1..k -> S] : k \in 0..n}

PrimTy == [kind |-> "PrimTy", n |-> 0]
I32 == TyPath(PrimTy, <<>>, <<>>)
SelfTy == TyPath([kind |-> "SelfTy", n |-> 0], <<>>, <<>>)
TyT == TyPath([kind |-> "TyParam", n |-> 0], <<>>, <<>>)
\* struct S<'x>(..) and struct Pair<T, U>(..) used as types
StructS(lts) == TyPath([kind |-> "Struct", n |-> 1], lts, <<>>)
Pair(t, u) == TyPath([kind |-> "Struct", n |-> 2], <<>>, <<t, u>>)
Ref(lt) == TyRptr(lt, I32)
\* Trait<'x> and for<'c> Trait<'x> as bounds
TraitRef(lts) == PolyTraitRef(<<>>, AngleBracketed(lts, <<>>))
ForTraitRef(name, lts) == PolyTraitRef(<<LifetimeDef(name, <<>>)>>, AngleBracketed(lts, <<>>))
\* Fn(&i32) -> &i32 as a bound
FnTraitRef == PolyTraitRef(<<>>, Parenthesized(<<Ref(ElidedName)>>, Ref(ElidedName)))

LifetimeDefs ==
    {LifetimeDef("a", <<>>), LifetimeDef("b", <<>>), LifetimeDef("a", <<"b">>),
     LifetimeDef("b", <<StaticLifetime>>), LifetimeDef(StaticLifetime, <<>>)}

LifetimeDefLists == SeqsUpTo(LifetimeDefs, MaxLifetimes)

PlainLifetimeDefLists == SeqsUpTo({LifetimeDef("a", <<>>), LifetimeDef("b", <<>>)}, MaxLifetimes)

\* where clauses with a for<> list on the predicate, on a trait reference
\* of its bounds or of its bounded type, on both, and on a later predicate
QuantifiedWhereClauses ==
    {<<BoundPredicate(<<LifetimeDef("c", <<>>)>>, Ref("c"),
                      <<TraitTyParamBound(ForTraitRef("d", <<"d", "c">>)),
                        TraitTyParamBound(TraitRef(<<"c">>))>>),
       BoundPredicate(<<>>, Ref("a"), <<TraitTyParamBound(ForTraitRef("d", <<"d">>))>>)>>,
     <<BoundPredicate(<<LifetimeDef("c", <<>>)>>,
                      TyTraitObject(<<ForTraitRef("d", <<"c">>)>>, "c"),
                      <<TraitTyParamBound(TraitRef(<<"c">>)),
                        TraitTyParamBound(PolyTraitRef(<<>>, Parenthesized(<<Ref("c")>>, NoTy)))>>)>>}

TyParamLists ==
    {<<>>, <<TyParam(<<TraitTyParamBound(TraitRef(<<"a">>))>>, NoTy)>>,
     <<TyParam(<<RegionTyParamBound("b")>>, Ref("a"))>>}

WhereClauses ==
    {<<>>, <<RegionPredicate("b", <<"a", StaticLifetime>>)>>,
     <<BoundPredicate(<<LifetimeDef("c", <<>>)>>, Ref("c"),
                      <<TraitTyParamBound(TraitRef(<<"c", "a">>)),
                        TraitTyParamBound(ForTraitRef("d", <<"d">>))>>)>>,
     <<BoundPredicate(<<>>, TyT, <<TraitTyParamBound(ForTraitRef("a", <<"a">>))>>),
       EqPredicate(TyT, Ref("b"))>>}

\* generics with every kind of declaration, bound and predicate
RichGenerics ==
    {Generics(l, t, w) : l \in LifetimeDefLists, t \in TyParamLists, w \in WhereClauses}

PlainGenerics == {Generics(l, <<>>, <<>>) : l \in PlainLifetimeDefLists}

\* <'a, 'a, 'a>, <'a, 'b, 'a>, ...
RepeatedGenerics ==
    {Generics(l, <<>>, <<>>) :
        l \in SeqsUpTo({LifetimeDef("a", <<>>), LifetimeDef("b", <<>>)}, MaxRepeats)}

\* argument types
ArgTys ==
    {I32, Ref(ElidedName), Ref("a"), Ref("b"), Ref(StaticLifetime),
     StructS(<<ElidedName, ElidedName>>), Pair(Ref("a"), Ref(ElidedName)),
     TyProj(Ref("a"), <<"b">>),
     TyBareFn(<<>>, <<Ref(ElidedName), Ref("a")>>, Ref(ElidedName)),
     TyBareFn(<<LifetimeDef("c", <<>>)>>, <<Ref("c")>>, NoTy),
     TyRptr(ElidedName, TyTraitObject(<<TraitRef(<<>>)>>, ElidedName))}

\* return types
OutTys ==
    {NoTy, Ref(ElidedName), Ref("a"), TyRptr(ElidedName, Ref(ElidedName)),
     TyImplTrait(<<TraitTyParamBound(TraitRef(<<"a">>))>>),
     TyBareFn(<<>>, <<Ref(ElidedName)>>, Ref(ElidedName)),
     TyTraitObject(<<ForTraitRef("c", <<ElidedName>>)>>, "a")}

\* types of fields, aliases, statics and impl headers
ItemTys ==
    {I32, Ref(ElidedName), Ref("a"), Ref("u"), StructS(<<"a">>),
     TyTraitObject(<<FnTraitRef>>, ElidedName),
     TyBareFn(<<LifetimeDef("a", <<>>)>>,
              <<TyBareFn(<<LifetimeDef("b", <<>>)>>, <<Ref("a"), Ref("b")>>, NoTy)>>, NoTy),
     TyBareFn(<<LifetimeDef("c", <<"c", "a">>), LifetimeDef("c", <<>>)>>, <<Ref("c")>>, Ref(ElidedName))}

Exprs ==
    {ExprType(Ref(ElidedName)), ExprType(Ref("a")), ExprType(Ref("b")),
     ExprType(TyBareFn(<<LifetimeDef("c", <<>>)>>, <<Ref(ElidedName), Ref("c")>>, Ref("a"))),
     ExprType(TyBareFn(<<LifetimeDef("a", <<>>)>>, <<>>, NoTy)),
     ExprLoop("a", <<ExprLoop("l", <<>>)>>), ExprLoop("l", <<>>),
     ExprClosure(<<Ref(ElidedName)>>, Ref(ElidedName), FnBody(<<ExprType(Ref("a")), ExprType(Ref(ElidedName))>>))}

Bodies == {FnBody(e) : e \in SeqsUpTo(Exprs, MaxExprs)}

TwoLifetimes == Generics(<<LifetimeDef("a", <<>>), LifetimeDef("b", <<>>)>>, <<>>, <<>>)
\* <'a, 'b> where 'b: 'static: 'a is late-bound and 'b early-bound
LateAndEarly ==
    Generics(<<LifetimeDef("a", <<>>), LifetimeDef("b", <<>>)>>, <<>>,
             <<RegionPredicate("b", <<StaticLifetime>>)>>)

\* fn items: every declaration with a few signatures
FnDecls ==
    {ItemFn(g, i, o, FnBody(<<>>)) :
        g \in RichGenerics,
        i \in {<<>>, <<Ref("a")>>, <<TyProj(Ref("b"), <<"a">>)>>},
        o \in {NoTy, Ref("a"), TyImplTrait(<<>>)}}

\* fn items: every signature with a few declarations
FnSigs ==
    {ItemFn(g, i, o, FnBody(<<>>)) :
        g \in {NoGenerics, TwoLifetimes}, i \in SeqsUpTo(ArgTys, MaxArgs), o \in OutTys}

\* fn items: every body
FnBodies ==
    {ItemFn(g, <<Ref("a")>>, NoTy, b) : g \in {NoGenerics, LateAndEarly}, b \in Bodies}

SelfArgs == {SelfTy, TyRptr(ElidedName, SelfTy), TyRptr("a", SelfTy), TyRptr("u", SelfTy),
             Ref(ElidedName), TyRptr(ElidedName, StructS(<<"a">>))}

Methods ==
    {Method(g, <<s>> \o i, o, b, h) :
        g \in {NoGenerics, LateAndEarly}, s \in SelfArgs,
        i \in SeqsUpTo({Ref(ElidedName), Ref("b")}, MaxArgs - 1),
        o \in {NoTy, Ref(ElidedName), Pair(Ref(ElidedName), Ref("a"))},
        b \in {NoFnBody, FnBody(<<ExprType(Ref("a")), ExprType(Ref("b"))>>)},
        h \in BOOLEAN}

AssocItems ==
    {AssocConst(Ref(ElidedName), FnBody(<<ExprType(Ref("a")), ExprType(Ref(ElidedName))>>)),
     AssocType(<<RegionTyParamBound("a"), TraitTyParamBound(FnTraitRef)>>, Ref("a"))}

ItemGenerics ==
    {NoGenerics, Generics(<<LifetimeDef("a", <<>>)>>, <<TyParam(<<>>, NoTy)>>, <<>>)}

Impls ==
    {ItemImpl(g, AngleBracketed(<<"a">>, <<>>), t, <<m>>) :
        g \in ItemGenerics, t \in {I32, StructS(<<"a">>)},
        m \in {n \in Methods : n.body # NoFnBody} \cup AssocItems}

Traits ==
    {ItemTrait(g, <<TraitTyParamBound(TraitRef(<<"a">>))>>, <<m>>) :
        g \in ItemGenerics, m \in {n \in Methods : n.inputs[1].k = "Rptr" => n.inputs[1].ty = SelfTy}
                                  \cup AssocItems}

Adts ==
    {ItemAdt(k, g, t) : k \in {"Ty", "Struct"}, g \in RichGenerics, t \in {<<>>, <<Ref("a")>>}}
    \cup {ItemAdt(k, g, <<t>>) : k \in {"Ty", "Struct"}, g \in PlainGenerics, t \in ItemTys}
    \cup {ItemAdt("Struct", g, <<>>) : g \in RepeatedGenerics}
    \cup {ItemAdt("Struct", Generics(<<LifetimeDef("a", <<>>)>>, <<TyParam(<<>>, NoTy)>>, w), <<>>)
            : w \in QuantifiedWhereClauses}

Statics ==
    {ItemStatic(t, b) : t \in ItemTys,
                        b \in {FnBody(<<>>), FnBody(<<ExprType(Ref(ElidedName)),
                                                     ExprClosure(<<Ref(ElidedName)>>, NoTy, FnBody(<<>>))>>)}}

ForeignItems ==
    {ForeignItemFn(g, i, o) :
        g \in {NoGenerics, LateAndEarly}, i \in SeqsUpTo(ArgTys, MaxArgs), o \in OutTys}
    \cup {ForeignItemStatic(t) : t \in ItemTys}

ForeignMods == {ItemForeignMod(f) : f \in SeqsUpTo(ForeignItems, 1)}

\* a few items of every kind, for the crates of more than one item
SomeItems ==
    {ItemMod,
     ItemFn(LateAndEarly, <<Ref("a"), Ref(ElidedName)>>, Ref("b"),
            FnBody(<<ExprLoop("l", <<>>), ExprType(Ref("a"))>>)),
     ItemAdt("Struct", TwoLifetimes, <<Ref("a"), Ref("c")>>),
     ItemStatic(Ref(ElidedName), FnBody(<<>>)),
     ItemImpl(TwoLifetimes, AngleBracketed(<<"a">>, <<>>), StructS(<<"b">>),
              <<Method(LateAndEarly, <<TyRptr(ElidedName, SelfTy), Ref("b")>>, Ref(ElidedName),
                       FnBody(<<ExprLoop("l", <<>>)>>), TRUE)>>)}

\* fn h<T = &i32>(x: &i32, y: &i32) -> (&i32, S): elided lifetimes under the
\* Error policy, one site with two of them, and one outside every scope
ElisionFailures ==
    {ItemFn(Generics(<<>>, <<TyParam(<<>>, Ref(ElidedName))>>, <<>>),
            <<Ref(ElidedName), Ref(ElidedName)>>,
            Pair(Ref(ElidedName), StructS(<<ElidedName, ElidedName>>)), FnBody(<<>>))}

\* fn f(x: &i32) -> (&i32, Box<for<'c> Trait<'_> + 'static>): the Exact
\* policy with and without a Binder between the scope and the lifetime
ExactOutputs ==
    {ItemFn(NoGenerics, <<Ref(ElidedName)>>,
            Pair(Ref(ElidedName),
                 TyTraitObject(<<ForTraitRef("c", <<ElidedName>>)>>, StaticLifetime)),
            FnBody(<<>>))}

\* fn f() { 'l: loop { || { 'm: loop {}; fn() } }; for<'a> fn() }: a labelled
\* loop around a closure whose body has a label of its own
NestedLabels ==
    {ItemFn(NoGenerics, <<>>, NoTy,
            FnBody(<<ExprLoop("l", <<ExprClosure(<<>>, NoTy,
                                       FnBody(<<ExprLoop("m", <<>>),
                                                ExprType(TyBareFn(<<>>, <<>>, NoTy))>>))>>),
                     ExprType(TyBareFn(<<LifetimeDef("a", <<>>)>>, <<>>, NoTy))>>))}

\* fn f<T>() where for<'c> T: Fn(Box<Trait<'c>>) -> &i32 and
\* fn f<T>() where for<'c> T: Fn(Box<for<'d> Trait<'c, 'd>>) -> &i32: a trait
\* reference inside an argument, below a quantified predicate
QuantifiedArguments ==
    {ItemFn(Generics(<<>>, <<>>,
                     <<BoundPredicate(<<LifetimeDef("c", <<>>)>>, TyT,
                           <<TraitTyParamBound(PolyTraitRef(<<>>,
                                 Parenthesized(<<TyTraitObject(<<t>>, StaticLifetime)>>,
                                               Ref(ElidedName))))>>)>>),
            <<>>, NoTy, FnBody(<<>>))
     : t \in {TraitRef(<<"c">>), ForTraitRef("d", <<"c", "d">>)}}

\* fn f<'a, 'b>(x: for<'c> fn(&'a i32, &'b i32, &'c i32)) where 'b: 'static:
\* a late-bound and an early-bound lifetime looked up through an inner Binder
BinderLookups ==
    {ItemFn(LateAndEarly,
            <<TyBareFn(<<LifetimeDef("c", <<>>)>>, <<Ref("a"), Ref("b"), Ref("c")>>, NoTy)>>,
            NoTy, FnBody(<<>>))}

Items ==
    {ItemMod} \cup FnDecls \cup FnSigs \cup FnBodies \cup Impls \cup Traits \cup Adts
    \cup ForeignMods \cup ElisionFailures \cup ExactOutputs \cup NestedLabels
    \cup QuantifiedArguments \cup BinderLookups

Crates ==
    {<<i>> : i \in Items} \cup {c \in SeqsUpTo(SomeItems, MaxItems) : Len(c) # 1}

StaticCrates == {<<i>> : i \in Statics}

\* the state after the construction of the map and the visitor in krate
Start(crates, features) ==
    /\ items \in crates
    /\ static_in_const \in features
    /\ idx = 1
    /\ defs = EmptyMap
    /\ late_bound = EmptyMap
    /\ diags = <<>>
    /\ scope = ROOT_SCOPE
    /\ trait_ref_hack = FALSE
    /\ labels_in_fn = <<>>
    /\ log = <<>>
    /\ result = Running

Init == Start(Crates, {FALSE}) \/ Start(StaticCrates, BOOLEAN)

Spec == Init /\ [][Next]_vars

----------------------------------------------------------------------------
(* What the properties below speak of: the declarations the pass has       *)
(* visited, and the scopes around a node.                                  *)

IsPrefix(a, b) == Len(a) <= Len(b) /\ SubSeq(b, 1, Len(a)) = a

\* the scopes pushed around the node id, outermost first: a scope pushed at
\* a node covers the nodes below it
ChainAt(id) == SelectSeq(log, LAMBDA e : IsPrefix(e.at, id))

FnDecl(f, p, kind, parent) == [f |-> f, p |-> p, kind |-> kind, parent |-> parent]

\* the function-like declarations of an item with node id p
ItemFnDecls(item, p) ==
    CASE item.item = "Fn" -> {FnDecl(item, p, "ItemFn", NoParent)}
      [] item.item \in {"Trait", "Impl"} ->
           {FnDecl(item.inner[i], p \o <<7, i>>,
                   IF item.item = "Trait" THEN "TraitMethod" ELSE "ImplMethod", item)
            : i \in {j \in DOMAIN item.inner : item.inner[j].ai = "Method"}}
      [] item.item = "ForeignMod" ->
           {FnDecl(item.inner[i], p \o <<7, i>>, "ForeignItem", NoParent)
            : i \in {j \in DOMAIN item.inner : item.inner[j].fi = "Fn"}}
      [] OTHER -> {}

\* the function-like declarations visited so far
VisitedFnDecls == UNION {ItemFnDecls(items[i], <<i>>) : i \in 1..(idx - 1)}

\* the types written inside a type, itself included
RECURSIVE TysIn(_)
TysOf(tys) == UNION {TysIn(tys[i]) : i \in DOMAIN tys}
PathParameterTys(params) ==
    IF params.pk = "angle" THEN TysOf(params.tys)
    ELSE TysOf(params.inputs) \cup TysIn(params.output)
TysIn(ty) ==
    {ty} \cup
    CASE ty.k = "Rptr" -> TysIn(ty.ty)
      [] ty.k = "Path" -> TysOf(ty.tys)
      [] ty.k = "Proj" -> TysIn(ty.qself)
      [] ty.k = "BareFn" -> TysOf(ty.inputs) \cup TysIn(ty.output)
      [] ty.k = "TraitObject" ->
           UNION {PathParameterTys(ty.bounds[i].params) : i \in DOMAIN ty.bounds}
      [] ty.k = "ImplTrait" ->
           UNION {PathParameterTys(ty.bounds[i].ptr.params)
                  : i \in {j \in DOMAIN ty.bounds : ty.bounds[j].b = "Trait"}}
      [] OTHER -> {}

HasImplTrait(ty) == \E t \in TysIn(ty) : t.k = "ImplTrait"

\* the lifetime names written in the bounds of the type parameters and in
\* the where-clause of generics (declarations of for<..> included), and those
\* of the lifetime parameters declared with bounds, with their bounds
NamesInBounds(generics) ==
    {o.name : o \in UNION {BoundOccs(generics.ty_params[i].bounds, <<i>>)
                            : i \in DOMAIN generics.ty_params}}
    \cup {o.name : o \in UNION {WherePredicateOccs(generics.where_clause[i], <<i>>)
                                 : i \in DOMAIN generics.where_clause}}
    \cup UNION {{generics.lifetimes[i].name} \cup Range(generics.lifetimes[i].bounds)
                : i \in {j \in DOMAIN generics.lifetimes : generics.lifetimes[j].bounds # <<>>}}

\* the positions on a chain of the Binder that declares the lifetime with
\* declaration node id decl
DeclaringBinders(chain, decl) ==
    {j \in DOMAIN chain :
        /\ chain[j].scope.s = "Binder"
        /\ \E m \in DOMAIN chain[j].pairs : Region_id(chain[j].pairs[m][2]) = decl}

\* the number of Binder scopes on a chain from position j inward
BindersFrom(chain, j) ==
    Cardinality({m \in j..Len(chain) : chain[m].scope.s = "Binder"})

NamedUses == {o \in VisitedUses : o.name # ElidedName}

ElidedUses == {o \in VisitedUses : o.name = ElidedName}

\* some diagnostic was emitted for the node id
Diagnosed(id) == \E k \in DOMAIN diags : id \in diags[k].covers

\* the innermost scope around the node that is not a Binder is a Body: the
\* node stands in a body, outside every function-like type and closure
\* signature written there
DirectlyInBody(id) ==
    LET chain == ChainAt(id) IN
    \E j \in DOMAIN chain :
        /\ chain[j].scope.s = "Body"
        /\ \A m \in (j + 1)..Len(chain) : chain[m].scope.s = "Binder"

\* the position on a chain of the innermost Binder that holds name, 0 when
\* none does
InnermostDeclaring(chain, name) ==
    LET holding == {j \in DOMAIN chain : /\ chain[j].scope.s = "Binder"
                                         /\ name \in DOMAIN chain[j].scope.lifetimes}
    IN IF holding = {} THEN 0 ELSE CHOOSE j \in holding : \A m \in holding : m <= j

\* the position on a chain of the outermost Body inside position j, 0 when
\* there is none
OutermostBodyInside(chain, j) ==
    LET bodies == {m \in (j + 1)..Len(chain) : chain[m].scope.s = "Body"}
    IN IF bodies = {} THEN 0 ELSE CHOOSE m \in bodies : \A n \in bodies : m <= n

\* the named uses in the body of a fn or method that find a binding declared
\* outside that body, each with its binding and the body
UsesInFnBodies ==
    {u \in {LET chain == ChainAt(o.id)
                jd == InnermostDeclaring(chain, o.name)
                jb == IF jd = 0 THEN 0 ELSE OutermostBodyInside(chain, jd)
            IN [id |-> o.id, found |-> jd # 0 /\ jb # 0,
                body |-> IF jb # 0 THEN chain[jb].scope ELSE NoBody,
                binding |-> IF jd # 0 THEN chain[jd].scope.lifetimes[o.name] ELSE Static]
            : o \in {n \in NamedUses : n.name # StaticLifetime}}
       : u.found /\ u.body.owner \in FnOwners}

CallSite(body) == [fn_id |-> body.fn_id, body_id |-> body.id]

Front(q) == SubSeq(q, 1, Len(q) - 1)

\* the scopes pushed for the output types of function-like constructs: node
\* p has its argument scope logged at p \o <<1>> and this one at p \o <<2>>
OutputScopes ==
    {e \in Range(log) :
        /\ e.scope.s = "Elision"
        /\ Len(e.at) >= 2
        /\ e.at[Len(e.at)] = 2
        /\ \E a \in Range(log) : a.at = Front(e.at) \o <<1>> /\ a.scope.s = "Elision"}

DeclAt(p) == {d \in VisitedFnDecls : d.p = p}

IsForeignAt(p) == \E d \in DeclAt(p) : d.kind = "ForeignItem"

HasSelfAt(p) == \E d \in DeclAt(p) : d.kind \in {"TraitMethod", "ImplMethod"} /\ d.f.has_self

\* the &self rule applies to the construct at p
SelfRuleAt(p) ==
    \E d \in DeclAt(p) :
        /\ d.kind \in {"TraitMethod", "ImplMethod"} /\ d.f.has_self
        /\ d.f.inputs[1].k = "Rptr"
        /\ d.f.inputs[1].ty.k = "Path"
        /\ \/ d.f.inputs[1].ty.def.kind = "SelfTy"
           \/ /\ d.parent.item = "Impl"
              /\ d.parent.self_ty.k = "Path"
              /\ d.parent.self_ty.def.kind \in {"Struct", "Union", "Enum", "PrimTy"}
              /\ d.parent.self_ty.def = d.f.inputs[1].ty.def
        /\ p \o <<1, 1, 0>> \in DOMAIN defs

\* a trait reference visited by visit_poly_trait_ref: its node id, whether
\* it stands in a where-clause bound predicate with a for<> list, and, when
\* it is one of the bounds of a bound predicate, that predicate and its id
TraitRefNode(id, ptr, hack, pred, w) ==
    [id |-> id, ptr |-> ptr, hack |-> hack, pred |-> pred, w |-> w]

NoPred == [w |-> "None"]

RECURSIVE TyTraitRefs(_, _, _)
RECURSIVE PolyTraitRefTraitRefs(_, _, _, _, _)

TysTraitRefs(tys, p, hack) == UNION {TyTraitRefs(tys[i], p \o <<i>>, hack) : i \in DOMAIN tys}

BoundTraitRefs(bounds, p, hack, pred, w) ==
    UNION {IF bounds[i].b = "Trait"
           THEN PolyTraitRefTraitRefs(bounds[i].ptr, p \o <<i>>, hack, pred, w)
           ELSE {} : i \in DOMAIN bounds}

TyTraitRefs(ty, p, hack) ==
    CASE ty.k = "Rptr" -> TyTraitRefs(ty.ty, p \o <<1>>, hack)
      [] ty.k = "Path" -> TysTraitRefs(ty.tys, p \o <<1>>, hack)
      [] ty.k = "Proj" -> TyTraitRefs(ty.qself, p \o <<2>>, hack)
      [] ty.k = "BareFn" ->
           TysTraitRefs(ty.inputs, p \o <<1>>, hack) \cup TyTraitRefs(ty.output, p \o <<2>>, hack)
      [] ty.k = "TraitObject" ->
           UNION {PolyTraitRefTraitRefs(ty.bounds[i], p \o <<3, i>>, hack, NoPred, <<>>)
                  : i \in DOMAIN ty.bounds}
      [] ty.k = "ImplTrait" -> BoundTraitRefs(ty.bounds, p \o <<3>>, hack, NoPred, <<>>)
      [] OTHER -> {}

PolyTraitRefTraitRefs(ptr, p, hack, pred, w) ==
    {TraitRefNode(p, ptr, hack, pred, w)}
    \cup IF ptr.params.pk = "angle"
         THEN TysTraitRefs(ptr.params.tys, p \o <<5, 1>>, hack)
         ELSE TysTraitRefs(ptr.params.inputs, p \o <<5, 1>>, hack)
              \cup TyTraitRefs(ptr.params.output, p \o <<5, 2>>, hack)

WherePredicateTraitRefs(pred, w) ==
    CASE pred.w = "Bound" ->
           TyTraitRefs(pred.bounded_ty, w \o <<1>>, pred.bound_lifetimes # <<>>)
           \cup BoundTraitRefs(pred.bounds, w \o <<3>>, pred.bound_lifetimes # <<>>, pred, w)
      [] pred.w = "Region" -> {}
      [] pred.w = "Eq" ->
           TyTraitRefs(pred.lhs_ty, w \o <<1>>, FALSE) \cup TyTraitRefs(pred.rhs_ty, w \o <<2>>, FALSE)

GenericsTraitRefs(generics, g) ==
    UNION {BoundTraitRefs(generics.ty_params[i].bounds, g \o <<1, i, 3>>, FALSE, NoPred, <<>>)
           \cup TyTraitRefs(generics.ty_params[i].default, g \o <<1, i, 1>>, FALSE)
           : i \in DOMAIN generics.ty_params}
    \cup UNION {WherePredicateTraitRefs(generics.where_clause[i], g \o <<2, i>>)
                : i \in DOMAIN generics.where_clause}

RECURSIVE BodyTraitRefs(_, _)
RECURSIVE ExprsTraitRefs(_, _)

ExprsTraitRefs(exprs, b) ==
    UNION {LET ex == exprs[i]
               at == b \o <<i>>
           IN CASE ex.e = "Type" -> TyTraitRefs(ex.ty, at \o <<1>>, FALSE)
                [] ex.e = "Loop" -> ExprsTraitRefs(ex.exprs, at)
                [] ex.e = "Closure" ->
                     TysTraitRefs(ex.inputs, at \o <<1>>, FALSE)
                     \cup TyTraitRefs(ex.output, at \o <<2>>, FALSE)
                     \cup BodyTraitRefs(ex.body, at \o <<4>>)
           : i \in DOMAIN exprs}

BodyTraitRefs(body, b) == IF body = NoFnBody THEN {} ELSE ExprsTraitRefs(body.exprs, b)

FnDeclTraitRefs(f, p) ==
    GenericsTraitRefs(f.generics, p \o <<6>>) \cup TysTraitRefs(f.inputs, p \o <<1>>, FALSE)
    \cup TyTraitRefs(f.output, p \o <<2>>, FALSE)

AssocItemTraitRefs(ai, p) ==
    CASE ai.ai = "Method" -> FnDeclTraitRefs(ai, p) \cup BodyTraitRefs(ai.body, p \o <<4>>)
      [] ai.ai = "Const" -> TyTraitRefs(ai.ty, p \o <<1>>, FALSE) \cup BodyTraitRefs(ai.body, p \o <<4>>)
      [] ai.ai = "Type" ->
           BoundTraitRefs(ai.bounds, p \o <<3>>, FALSE, NoPred, <<>>)
           \cup TyTraitRefs(ai.ty, p \o <<1>>, FALSE)

ForeignItemTraitRefs(fi, p) ==
    IF fi.fi = "Fn" THEN FnDeclTraitRefs(fi, p) ELSE TyTraitRefs(fi.ty, p \o <<1>>, FALSE)

\* the impl's own trait reference goes through visit_trait_ref, not
\* visit_poly_trait_ref: only the trait references in its arguments count
ItemTraitRefs(item, p) ==
    CASE item.item = "Fn" -> FnDeclTraitRefs(item, p) \cup BodyTraitRefs(item.body, p \o <<4>>)
      [] item.item = "Adt" ->
           GenericsTraitRefs(item.generics, p \o <<6>>) \cup TysTraitRefs(item.tys, p \o <<1>>, FALSE)
      [] item.item = "Trait" ->
           GenericsTraitRefs(item.generics, p \o <<6>>)
           \cup BoundTraitRefs(item.bounds, p \o <<3>>, FALSE, NoPred, <<>>)
           \cup UNION {AssocItemTraitRefs(item.inner[i], p \o <<7, i>>) : i \in DOMAIN item.inner}
      [] item.item = "Impl" ->
           GenericsTraitRefs(item.generics, p \o <<6>>)
           \cup TysTraitRefs(item.trait_ref.tys, p \o <<5, 1>>, FALSE)
           \cup TyTraitRefs(item.self_ty, p \o <<2>>, FALSE)
           \cup UNION {AssocItemTraitRefs(item.inner[i], p \o <<7, i>>) : i \in DOMAIN item.inner}
      [] item.item = "Static" ->
           TyTraitRefs(item.ty, p \o <<1>>, FALSE) \cup BodyTraitRefs(item.body, p \o <<4>>)
      [] item.item = "ForeignMod" ->
           UNION {ForeignItemTraitRefs(item.inner[i], p \o <<7, i>>) : i \in DOMAIN item.inner}
      [] OTHER -> {}

\* the trait references of the items krate's loop has visited so far
VisitedTraitRefs == UNION {ItemTraitRefs(items[i], <<i>>) : i \in 1..(idx - 1)}

\* the binders GatherLifetimes counts between the argument arg and the node
\* id below it: one for every bare-fn type and every trait reference.  The
\* walker pushed a Binder for each of them, except for the trait references
\* without a for<> list that it met while the sentinel was set
GatherBinders(arg, id) ==
    Cardinality({e \in Range(log) :
                    e.scope.s = "Binder" /\ IsPrefix(arg, e.at) /\ IsPrefix(e.at, id)})
    + Cardinality({n.id : n \in {m \in VisitedTraitRefs :
                                      /\ m.hack /\ m.ptr.bound_lifetimes = <<>>
                                      /\ IsPrefix(arg, m.id) /\ IsPrefix(m.id, id)}})

\* the recorded lifetimes of the arguments of the construct at p that count
\* for elision (the self argument does not), each with its argument's
\* index, its region and the number of binders GatherLifetimes counts around
\* it inside the argument
ArgUses(p) ==
    {[arg |-> o.id[Len(p) + 2], region |-> defs[o.id],
      binders |-> GatherBinders(SubSeq(o.id, 1, Len(p) + 2), o.id)]
     : o \in {u \in VisitedUses : /\ IsPrefix(p \o <<1>>, u.id)
                                   /\ u.id \in DOMAIN defs
                                   /\ ~(HasSelfAt(p) /\ u.id[Len(p) + 2] = 1)}}

\* a late-bound region whose depth is below the gatherer's counter: skipped
Captured(u) == IsLate(u.region) /\ u.region.depth < u.binders + 1

\* the (argument, lifetime) pairs of the construct at p, the lifetimes
\* normalized by from_depth
ArgRegions(p) ==
    {<<u.arg, from_depth(u.region, u.binders + 1)>> : u \in {v \in ArgUses(p) : ~Captured(v)}}

\* the elided lifetimes that the scope pushed at the node sc resolves: those
\* below it with no other Elision scope and no Body in between, the elided
\* bounds of trait objects left out
ElidedUnder(sc) ==
    {o \in ElidedUses :
        /\ IsPrefix(sc, o.id)
        /\ o.site # "Object"
        /\ \A e \in Range(log) :
               (IsPrefix(sc, e.at) /\ e.at # sc /\ IsPrefix(e.at, o.id)) => e.scope.s = "Binder"}

\* the number of Binder scopes between the node sc and the node id below it
BindersBetween(sc, id) ==
    Cardinality({e \in Range(log) :
                    e.scope.s = "Binder" /\ IsPrefix(sc, e.at) /\ IsPrefix(e.at, id)})

\* the order of the node ids, which is the order of the visit inside a type
LexLess(a, b) ==
    \/ Len(a) < Len(b) /\ IsPrefix(a, b)
    \/ \E i \in 1..Len(a) :
          /\ i <= Len(b)
          /\ a[i] < b[i]
          /\ \A j \in 1..(i - 1) : a[j] = b[j]

\* the number of lifetimes of the set S visited before the node id
RankIn(S, id) == Cardinality({o \in S : LexLess(o.id, id)})

\* the nodes at which a FreshLateAnon scope with a new counter was pushed
FreshScopes ==
    {e.at : e \in {x \in Range(log) : x.scope = Elision(FreshLateAnon(0))}}

\* the declarations with lifetime parameters visited so far: the
\* function-like ones and the type, trait and impl items
VisitedDecls ==
    VisitedFnDecls
    \cup {FnDecl(items[i], <<i>>, items[i].item, NoParent)
          : i \in {j \in 1..(idx - 1) : items[j].item \in {"Adt", "Trait", "Impl"}}}

\* the first early index of a declaration
Offset(d) ==
    CASE d.kind = "Trait" -> 1
      [] d.kind = "TraitMethod" ->
           Len(d.parent.generics.lifetimes) + Len(d.parent.generics.ty_params) + 1
      [] d.kind = "ImplMethod" ->
           Len(d.parent.generics.lifetimes) + Len(d.parent.generics.ty_params)
      [] OTHER -> 0

\* the Binder scopes pushed for the declaration at p
BindersAt(p) == {e \in Range(log) : e.at = p /\ e.scope.s = "Binder"}

\* the node id of lifetime parameter i of the declaration d
ParamId(d, i) == d.p \o <<6, 0, i>>

----------------------------------------------------------------------------
(* Properties *)

LateBoundDepthCountsBinders ==
    \A o \in NamedUses :
        (o.id \in DOMAIN defs /\ defs[o.id].r = "LateBound") =>
            LET chain == ChainAt(o.id)
                declaring == DeclaringBinders(chain, defs[o.id].id)
            IN /\ declaring # {}
               /\ \A j \in declaring : defs[o.id].depth = BindersFrom(chain, j)

\* a use two binders deep, as that of 'a in for<'a> fn(for<'b> fn(&'a i32, &'b i32)),
\* next to one a single binder deep
LateBoundDepthWitness ==
    \E o, q \in NamedUses :
        /\ o.id \in DOMAIN defs /\ defs[o.id].r = "LateBound" /\ defs[o.id].depth = 2
        /\ q.id \in DOMAIN defs /\ defs[q.id].r = "LateBound" /\ defs[q.id].depth = 1
        /\ Len(q.id) = Len(o.id)

StaticReferencesAreStatic ==
    \A o \in VisitedUses :
        o.name = StaticLifetime =>
            /\ o.id \in DOMAIN defs
            /\ defs[o.id] = Static
            /\ \A k \in DOMAIN diags : ~(diags[k].code = "E0261" /\ diags[k].at = o.id)

\* C5 as stated: a named use in a fn or method body whose binding is declared
\* outside the body is stored as Free(call site of the outermost body, decl
\* id) when the binding is late-bound, and unchanged when it is early-bound
FreeOnlyIfLateBound ==
    \A u \in UsesInFnBodies :
        /\ u.id \in DOMAIN defs
        /\ defs[u.id] = IF IsLate(u.binding)
                        THEN Free(CallSite(u.body), Region_id(u.binding))
                        ELSE u.binding

\* C5 amended: a named use in a fn or method body whose binding is declared
\* outside the body is stored as Free(call site of the outermost body, decl
\* id), whether the binding is late-bound or early-bound
FreeInFnBodies ==
    \A u \in UsesInFnBodies :
        /\ u.id \in DOMAIN defs
        /\ defs[u.id] = Free(CallSite(u.body), Region_id(u.binding))

\* a body visited with a use of a late-bound and a use of an early-bound
\* lifetime of its fn, at different depths of the body
FreeInFnBodiesWitness ==
    \E u, v \in UsesInFnBodies :
        /\ IsLate(u.binding) /\ ~IsLate(v.binding)
        /\ u.body = v.body
        /\ Len(u.id) # Len(v.id)
        /\ u.id \in DOMAIN defs /\ v.id \in DOMAIN defs

SelfRegionElidesOutput ==
    \A d \in VisitedFnDecls :
        SelfRuleAt(d.p) =>
            \A o \in ElidedUnder(d.p \o <<2>>) :
                /\ o.id \in DOMAIN defs
                /\ defs[o.id] = shifted(defs[d.p \o <<1, 1, 0>>], BindersBetween(d.p \o <<2>>, o.id))

\* a method fn g(&self, y: &'b u8) -> .. visited in an impl for a primitive
\* type with &self written as a reference to that type, whose elided
\* output lifetime has the self region though y has another
SelfRegionWitness ==
    \E d \in VisitedFnDecls :
        /\ SelfRuleAt(d.p)
        /\ d.f.inputs[1].ty.def.kind = "PrimTy"
        /\ Len(d.f.inputs) = 2
        /\ d.p \o <<1, 2, 0>> \in DOMAIN defs
        /\ defs[d.p \o <<1, 2, 0>>] # defs[d.p \o <<1, 1, 0>>]
        /\ \E o \in ElidedUnder(d.p \o <<2>>) :
               o.id \in DOMAIN defs /\ defs[o.id] = defs[d.p \o <<1, 1, 0>>]

\* C8: in a foreign fn whose inputs hold k elided lifetimes (those of its
\* argument scope), the output is visited under FreshLateAnon with the
\* counter at k, never under Exact or Error, and the j-th elided lifetime of
\* the output, j from 0, gets the anon index k + j
ForeignOutputContinuesCounter ==
    \A d \in VisitedFnDecls :
        (d.kind = "ForeignItem" /\ d.f.output # NoTy) =>
            LET k == Cardinality(ElidedUnder(d.p \o <<1>>))
                outs == ElidedUnder(d.p \o <<2>>)
            IN /\ \A e \in Range(log) :
                      (e.at = d.p \o <<2>> /\ e.scope.s = "Elision")
                          => e.scope = Elision(FreshLateAnon(k))
               /\ \A o \in outs :
                      /\ o.id \in DOMAIN defs
                      /\ defs[o.id] = LateBoundAnon(1 + BindersBetween(d.p \o <<2>>, o.id),
                                                    k + RankIn(outs, o.id))

\* a foreign fn visited with two arguments, elided lifetimes in its inputs
\* and two in its output, the last with index k + 1
ForeignOutputWitness ==
    \E d \in VisitedFnDecls :
        /\ d.kind = "ForeignItem"
        /\ Len(d.f.inputs) = 2
        /\ Cardinality(ElidedUnder(d.p \o <<1>>)) >= 2
        /\ \E o \in ElidedUnder(d.p \o <<2>>) :
               /\ o.id \in DOMAIN defs
               /\ defs[o.id].r = "LateBoundAnon"
               /\ defs[o.id].index = Cardinality(ElidedUnder(d.p \o <<1>>)) + 1

\* C9: the elided lifetimes of one FreshLateAnon scope get the anon indices
\* 0, 1, .., k-1 in the order of the visit; a function-like type nested in
\* the scope has a scope of its own, whose indices start at 0 again and
\* take none of the outer ones
FreshIndicesContiguous ==
    \A sc \in FreshScopes :
        LET S == ElidedUnder(sc) IN
        \A o \in S :
            /\ o.id \in DOMAIN defs
            /\ defs[o.id] = LateBoundAnon(1 + BindersBetween(sc, o.id), RankIn(S, o.id))

\* an argument scope with two elided lifetimes, visited after the elided
\* lifetime of a function-like type nested in the scope
FreshIndicesWitness ==
    \E sc, inner \in FreshScopes :
        /\ IsPrefix(sc, inner) /\ sc # inner
        /\ Cardinality(ElidedUnder(sc)) = 2
        /\ \E o \in ElidedUnder(sc), q \in ElidedUnder(inner) :
              /\ LexLess(q.id, o.id)
              /\ o.id \in DOMAIN defs /\ defs[o.id].index = 1
              /\ q.id \in DOMAIN defs /\ defs[q.id].index = 0

\* C10: the EarlyBound indices of the lifetime parameters of a declaration
\* are consecutive in declaration order from the declaration's offset (0
\* for a free or foreign fn and a type, enum, struct, union or impl item, 1
\* for a trait, the parent's count of lifetime and type parameters for a
\* method, plus 1 in a trait); the late-bound parameters take no index
EarlyIndicesConsecutive ==
    \A d \in VisitedDecls :
        /\ BindersAt(d.p) # {}
        /\ \A e \in BindersAt(d.p) :
              /\ Len(e.pairs) = Len(d.f.generics.lifetimes)
              /\ \A m \in DOMAIN e.pairs :
                    IF ParamId(d, m) \in DOMAIN late_bound
                    THEN e.pairs[m][2] = LateBound(1, ParamId(d, m))
                    ELSE e.pairs[m][2] =
                            EarlyBound(Offset(d) + Cardinality({n \in 1..(m - 1) :
                                                      ParamId(d, n) \notin DOMAIN late_bound}),
                                       ParamId(d, m))

\* a trait method visited whose early-bound parameter comes after a
\* late-bound one and has the index of the trait's parameters plus Self,
\* in a trait with parameters
EarlyIndicesWitness ==
    \E d \in VisitedDecls :
        /\ d.kind = "TraitMethod"
        /\ Offset(d) = 3
        /\ Len(d.f.generics.lifetimes) = 2
        /\ ParamId(d, 1) \in DOMAIN late_bound
        /\ \E e \in BindersAt(d.p) : e.pairs[2][2] = EarlyBound(3, ParamId(d, 2))

\* the lifetimes of a type that constrain a lifetime parameter: all of them
\* but those written in a projection or an associated type (<T as Tr>::X)
RECURSIVE ConstrainingOccs(_, _)
ConstrainingTysOccs(tys, p) == UNION {ConstrainingOccs(tys[i], p \o <<i>>) : i \in DOMAIN tys}
ConstrainingPtrOccs(ptr, p) ==
    LifetimeDefOccs(ptr.bound_lifetimes, p \o <<0>>)
    \cup IF ptr.params.pk = "angle"
         THEN LifetimeOccs(ptr.params.lts, p \o <<5, 0>>, "Ref")
              \cup ConstrainingTysOccs(ptr.params.tys, p \o <<5, 1>>)
         ELSE ConstrainingTysOccs(ptr.params.inputs, p \o <<5, 1>>)
              \cup ConstrainingOccs(ptr.params.output, p \o <<5, 2>>)
ConstrainingOccs(ty, p) ==
    CASE ty.k = "Rptr" -> {Occ(p \o <<0>>, ty.lt, "Ref")} \cup ConstrainingOccs(ty.ty, p \o <<1>>)
      [] ty.k = "Path" ->
           LifetimeOccs(ty.lts, p \o <<0>>, "Ref") \cup ConstrainingTysOccs(ty.tys, p \o <<1>>)
      [] ty.k = "BareFn" ->
           LifetimeDefOccs(ty.lifetimes, p \o <<0>>) \cup ConstrainingTysOccs(ty.inputs, p \o <<1>>)
           \cup ConstrainingOccs(ty.output, p \o <<2>>)
      [] ty.k = "TraitObject" ->
           UNION {ConstrainingPtrOccs(ty.bounds[i], p \o <<3, i>>) : i \in DOMAIN ty.bounds}
           \cup {Occ(p \o <<0>>, ty.lt, "Object")}
      [] ty.k = "ImplTrait" ->
           UNION {IF ty.bounds[i].b = "Trait"
                  THEN ConstrainingPtrOccs(ty.bounds[i].ptr, p \o <<3, i>>)
                  ELSE {Occ(p \o <<3, i, 0>>, ty.bounds[i].lt, "Bound")} : i \in DOMAIN ty.bounds}
      [] OTHER -> {}

\* the names that the inputs of a declaration constrain, and those written
\* in its return type
ConstrainedNames(d) == {o.name : o \in ConstrainingTysOccs(d.f.inputs, d.p \o <<1>>)}
OutputNames(d) == {o.name : o \in TyOccs(d.f.output, d.p \o <<2>>)}

\* C11: every entry of late_bound for a lifetime parameter of a visited
\* function-like declaration is tagged WillChange (with the declaration and
\* the name) exactly when no input constrains the name and the return type
\* mentions it, and WontChange otherwise
WillChangeIffUnconstrainedInOutput ==
    \A d \in VisitedFnDecls : \A i \in DOMAIN d.f.generics.lifetimes :
        ParamId(d, i) \in DOMAIN late_bound =>
            LET name == d.f.generics.lifetimes[i].name IN
            late_bound[ParamId(d, i)] =
                IF name \notin ConstrainedNames(d) /\ name \in OutputNames(d)
                THEN [tag |-> "WillChange", fn_def_id |-> d.p, region_name |-> name]
                ELSE [tag |-> "WontChange"]

\* a declaration with two late-bound parameters: one that the return type
\* mentions and the inputs hold only inside a projection, tagged WillChange,
\* and one tagged WontChange
WillChangeWitness ==
    \E d \in VisitedFnDecls : \E i, j \in DOMAIN d.f.generics.lifetimes :
        /\ ParamId(d, i) \in DOMAIN late_bound
        /\ late_bound[ParamId(d, i)].tag = "WillChange"
        /\ d.f.generics.lifetimes[i].name \in {o.name : o \in TysOccs(d.f.inputs, d.p \o <<1>>)}
        /\ ParamId(d, j) \in DOMAIN late_bound
        /\ late_bound[ParamId(d, j)].tag = "WontChange"

\* the static and const items visited so far, by node id
VisitedStatics == {<<i>> : i \in {j \in 1..(idx - 1) : items[j].item = "Static"}}

\* C12 as stated: every elided lifetime of a visited static or const item,
\* those of the initializer included, is recorded in defs as Static
StaticItemElidedAllStatic ==
    \A p \in VisitedStatics : \A o \in ElidedUses :
        IsPrefix(p, o.id) => o.id \in DOMAIN defs /\ defs[o.id] = Static

\* C12 amended: in a visited static or const item, every elided lifetime
\* that the item's own elision scope resolves (one of the item's type,
\* outside every function-like type and not the elided bound of a trait
\* object) is recorded in defs as Static, whether or not static_in_const is
\* on; an elided lifetime standing directly in the initializer (outside
\* every function-like type and closure signature there) has no defs entry
StaticItemTypeElidedStatic ==
    \A p \in VisitedStatics :
        /\ \A o \in ElidedUnder(p) : o.id \in DOMAIN defs /\ defs[o.id] = Static
        /\ \A o \in ElidedUses :
               (IsPrefix(p, o.id) /\ DirectlyInBody(o.id)) => o.id \notin DOMAIN defs

\* a static visited with the feature off whose type holds an elided lifetime
\* recorded as Static and whose initializer holds one that is not recorded
StaticItemWitness ==
    \E p \in VisitedStatics :
        /\ ~static_in_const
        /\ \E o \in ElidedUnder(p) : o.id \in DOMAIN defs /\ defs[o.id] = Static
        /\ \E o \in ElidedUses :
               IsPrefix(p, o.id) /\ DirectlyInBody(o.id) /\ o.id \notin DOMAIN defs

\* the declarations visited so far
VisitedDeclOccs == {o \in VisitedOccs : o.site = "Decl"}

\* the positions on the chain around a declaration of the Binders outside
\* the declaring one that hold the declared name
ShadowedBinders(o) ==
    LET chain == ChainAt(o.id) IN
    {j \in DOMAIN chain :
        /\ chain[j].scope.s = "Binder"
        /\ o.name \in DOMAIN chain[j].scope.lifetimes
        /\ \E m \in DeclaringBinders(chain, o.id) : j < m}

\* C13: a declaration whose name an enclosing Binder of the scope chain
\* holds is reported with an E0496 error, whatever labels were collected
ShadowingDeclarationIsError ==
    \A o \in VisitedDeclOccs :
        ShadowedBinders(o) # {} =>
            \E k \in DOMAIN diags :
                diags[k].level = "error" /\ diags[k].code = "E0496" /\ diags[k].at = o.id

\* the last component of a node id: the position of a declaration in its list
Last(q) == q[Len(q)]

\* the lifetime parameter lists visited so far, each by the node id its
\* declarations hang from
VisitedLists == {Front(o.id) : o \in VisitedDeclOccs}

DeclsOf(q) == {o \in VisitedDeclOccs : Front(o.id) = q}

\* the E0263 errors reported for the declarations of a list
TwiceErrors(q) ==
    {k \in DOMAIN diags :
        diags[k].level = "error" /\ diags[k].code = "E0263" /\ Front(diags[k].at) = q}

\* the declarations of a list that repeat the name of an earlier one
LaterDuplicates(q) ==
    {o \in DeclsOf(q) : \E e \in DeclsOf(q) : Last(e.id) < Last(o.id) /\ e.name = o.name}

\* the pairs of an earlier and a later declaration of one name
DuplicatePairs(q) ==
    {pr \in DeclsOf(q) \X DeclsOf(q) :
        Last(pr[1].id) < Last(pr[2].id) /\ pr[1].name = pr[2].name}

\* C14 as stated: a list gets one E0263 error per declaration that repeats
\* the name of an earlier declaration of the list
TwiceErrorPerLaterDuplicate ==
    \A q \in VisitedLists : Cardinality(TwiceErrors(q)) = Cardinality(LaterDuplicates(q))

\* C14 amended: a list gets one E0263 error per pair of an earlier and a
\* later declaration of the same name, reported at the later one, so a
\* declaration is reported once for each earlier declaration of its name
TwiceErrorPerDuplicatePair ==
    \A q \in VisitedLists :
        /\ Cardinality(TwiceErrors(q)) = Cardinality(DuplicatePairs(q))
        /\ \A o \in DeclsOf(q) :
               Cardinality({k \in TwiceErrors(q) : diags[k].at = o.id})
                   = Cardinality({pr \in DuplicatePairs(q) : pr[2] = o})

\* a visited list of three declarations of one name: three errors, two of
\* them at the third declaration
TwiceErrorWitness ==
    \E q \in VisitedLists :
        /\ Cardinality(LaterDuplicates(q)) = 2
        /\ Cardinality(TwiceErrors(q)) = 3
        /\ \E o \in DeclsOf(q) : Cardinality({k \in TwiceErrors(q) : diags[k].at = o.id}) = 2

\* the E0262 errors reported at a declaration
ReservedErrors(id) ==
    {k \in DOMAIN diags :
        diags[k].level = "error" /\ diags[k].code = "E0262" /\ diags[k].at = id}

\* C15: a declaration named 'static is reported with exactly one E0262
\* error, however many declarations its list holds
OneReservedErrorPerDeclaration ==
    \A o \in VisitedDeclOccs :
        o.name = StaticLifetime => Cardinality(ReservedErrors(o.id)) = 1

\* the E0261 errors reported at a use
UndeclaredErrors(id) ==
    {k \in DOMAIN diags :
        diags[k].level = "error" /\ diags[k].code = "E0261" /\ diags[k].at = id}

\* the named uses visited so far whose name no Binder around them holds
UndeclaredUses ==
    {o \in NamedUses :
        /\ o.name # StaticLifetime
        /\ \A e \in Range(ChainAt(o.id)) :
               e.scope.s = "Binder" => o.name \notin DOMAIN e.scope.lifetimes}

\* C16: a named use whose name no Binder of the scope chain holds gets
\* exactly one E0261 error and no defs entry, the bounds of the lifetime
\* parameters of bare-fn types and higher-ranked trait references included
UndeclaredUseReportedOnce ==
    \A o \in UndeclaredUses :
        Cardinality(UndeclaredErrors(o.id)) = 1 /\ o.id \notin DOMAIN defs

\* the E0316 errors reported at a trait reference
NestedErrors(id) ==
    {k \in DOMAIN diags :
        diags[k].level = "error" /\ diags[k].code = "E0316" /\ diags[k].at = id}

\* C17: a trait reference gets one E0316 error when it carries its own
\* for<> list and is visited inside a where-clause bound predicate that has
\* a for<> list, and none otherwise; E0316 is reported nowhere else, and the
\* sentinel is off after every predicate
NestedQuantificationReportedOnce ==
    /\ trait_ref_hack = FALSE
    /\ \A n \in VisitedTraitRefs :
           Cardinality(NestedErrors(n.id)) =
               IF n.hack /\ n.ptr.bound_lifetimes # <<>> THEN 1 ELSE 0
    /\ \A k \in DOMAIN diags :
           diags[k].code = "E0316" => \E n \in VisitedTraitRefs : n.id = diags[k].at

\* a visited where clause whose first predicate has a for<> list and a bound
\* with its own for<> list, reported, and whose later predicate has none and
\* a bound with its own for<> list, not reported
NestedQuantificationWitness ==
    \E n \in VisitedTraitRefs : \E m \in VisitedTraitRefs :
        /\ n.hack /\ n.ptr.bound_lifetimes # <<>> /\ Cardinality(NestedErrors(n.id)) = 1
        /\ ~m.hack /\ m.ptr.bound_lifetimes # <<>> /\ NestedErrors(m.id) = {}
        /\ n.pred # NoPred /\ m.pred # NoPred
        /\ Front(n.w) = Front(m.w) /\ Last(n.w) < Last(m.w)

\* the trait references that are bounds of a where-clause bound predicate
PredicateTraitRefs == {n \in VisitedTraitRefs : n.pred # NoPred}

\* the uses, in the arguments of such a trait reference and in the bounded
\* type of its predicate, of a name that the for<> list of the predicate or
\* of the trait reference binds, with one Binder between predicate and use;
\* list is the node id of the for<> list that binds the name
ForBoundUses(n) ==
    {[id |-> o.id, name |-> o.name, list |-> n.w \o <<0>>] :
        o \in {u \in TyOccs(n.pred.bounded_ty, n.w \o <<1>>)
                     \cup PolyTraitRefOccs(n.ptr, n.id) :
                 /\ u.site = "Ref"
                 /\ BindersBetween(n.w, u.id) = 1
                 /\ \E i \in DOMAIN n.pred.bound_lifetimes :
                        n.pred.bound_lifetimes[i].name = u.name}}
    \cup
    {[id |-> o.id, name |-> o.name, list |-> n.id \o <<0>>] :
        o \in {u \in PolyTraitRefOccs(n.ptr, n.id) :
                 /\ u.site = "Ref"
                 /\ BindersBetween(n.w, u.id) = 1
                 /\ \E i \in DOMAIN n.ptr.bound_lifetimes :
                        n.ptr.bound_lifetimes[i].name = u.name}}

\* one Binder stands between the predicate and the arguments of the trait
\* reference, and the for<>-bound names used there are LateBound(1)
SingleBinderAt(n) ==
    /\ BindersBetween(n.w, n.id \o <<5>>) = 1
    /\ \A u \in ForBoundUses(n) :
           /\ u.id \in DOMAIN defs
           /\ defs[u.id].r = "LateBound"
           /\ defs[u.id].depth = 1
           /\ Front(defs[u.id].id) = u.list

VisitAlone(i) ==
    LET c0 == [Ctx EXCEPT !.defs = EmptyMap, !.late_bound = EmptyMap, !.diags = <<>>,
                          !.log = <<>>]
        item == items[i]
    IN CASE item.item = "Fn" -> visit_item_fn(c0, item, <<i>>)
         [] item.item = "Static" -> visit_item_static(c0, item, <<i>>)
         [] item.item \in {"Adt", "Trait", "Impl"} -> visit_item_early(c0, item, <<i>>)
         [] OTHER -> visit_item_plain(c0, item, <<i>>)

\* the entries of a map for the nodes of item i
OfItem(m, i) == [id \in {x \in DOMAIN m : x[1] = i} |-> m[id]]

\* some error was emitted
ErrorEmitted == \E k \in DOMAIN diags : diags[k].level = "error"

\* C19: krate returns the map when no error was emitted and the failure
\* result with the error count otherwise, in both cases after the visit of
\* every item; what the pass records and reports for an item is what it
\* records and reports for that item alone, whatever errors came before
ErrorsDoNotStopTraversal ==
    /\ result # Running => idx = Len(items) + 1
    /\ result.k = "Ok" =>
           ~ErrorEmitted /\ result.defs = defs /\ result.late_bound = late_bound
    /\ result.k = "Err" =>
           /\ ErrorEmitted
           /\ result.count = Cardinality({k \in DOMAIN diags : diags[k].level = "error"})
    /\ \A i \in 1..(idx - 1) :
           Len(items) > 1 =>
           /\ OfItem(defs, i) = VisitAlone(i).defs
           /\ OfItem(late_bound, i) = VisitAlone(i).late_bound
           /\ SelectSeq(diags, LAMBDA d : d.at[1] = i) = VisitAlone(i).diags

\* krate has returned the failure result for a crate whose first item got
\* an error and whose second item, visited after it, got resolutions
ErrorsDoNotStopWitness ==
    /\ result.k = "Err"
    /\ Len(items) = 2
    /\ \E k \in DOMAIN diags : diags[k].level = "error" /\ diags[k].at[1] = 1
    /\ \E id \in DOMAIN defs : id[1] = 2
    /\ \E id \in DOMAIN late_bound : id[1] = 2

\* the labelled loops of a body: node id, label and the node id of the body
\* whose labels extract_labels collects them with
RECURSIVE BodyLabels(_, _)
RECURSIVE ExprsLabels(_, _, _)

ExprsLabels(exprs, at, b) ==
    UNION {LET ex == exprs[i]
               id == at \o <<i>>
           IN CASE ex.e = "Loop" ->
                     (IF ex.label # NoLabel
                      THEN {[id |-> id, label |-> ex.label, body |-> b]} ELSE {})
                     \cup ExprsLabels(ex.exprs, id, b)
                [] ex.e = "Closure" -> BodyLabels(ex.body, id \o <<4>>)
                [] OTHER -> {}
           : i \in DOMAIN exprs}

BodyLabels(body, b) == IF body = NoFnBody THEN {} ELSE ExprsLabels(body.exprs, b, b)

ItemLabels(item, p) ==
    CASE item.item \in {"Fn", "Static"} -> BodyLabels(item.body, p \o <<4>>)
      [] item.item \in {"Trait", "Impl"} ->
           UNION {IF item.inner[i].ai \in {"Method", "Const"}
                  THEN BodyLabels(item.inner[i].body, p \o <<7, i, 4>>) ELSE {}
                  : i \in DOMAIN item.inner}
      [] OTHER -> {}

VisitedLabels == UNION {ItemLabels(items[i], <<i>>) : i \in 1..(idx - 1)}

\* the label repeats a label collected before it in the same body
ShadowsLabel(n) ==
    \E m \in VisitedLabels : m.body = n.body /\ m.label = n.label /\ LexLess(m.id, n.id)

\* the label is a lifetime of a Binder of the scope chain around the body
ShadowsLifetime(n) ==
    \E e \in Range(ChainAt(n.body)) :
        e.scope.s = "Binder" /\ n.label \in DOMAIN e.scope.lifetimes

\* C20: a label that repeats an earlier label of its body or a lifetime of
\* an enclosing Binder gets a warning and no error, and a pass that
\* reported nothing but such labels returns the success result
LabelShadowingOnlyWarns ==
    /\ \A n \in VisitedLabels :
           /\ (ShadowsLabel(n) \/ ShadowsLifetime(n)) =>
                  \E k \in DOMAIN diags :
                      diags[k].at = n.id /\ diags[k].level = "warning" /\ diags[k].code = "shadow"
           /\ \A k \in DOMAIN diags : diags[k].at = n.id => diags[k].level = "warning"
    /\ (/\ result # Running
        /\ \A k \in DOMAIN diags : \E n \in VisitedLabels : diags[k].at = n.id)
       => result.k = "Ok"

\* the pass has returned the success result for a crate with a label that
\* repeats a lifetime and a label that repeats a label, both warned about
LabelShadowingWitness ==
    /\ result.k = "Ok"
    /\ \E n \in VisitedLabels :
           ShadowsLifetime(n) /\ \E k \in DOMAIN diags : diags[k].at = n.id
    /\ \E n \in VisitedLabels :
           ShadowsLabel(n) /\ ~ShadowsLifetime(n) /\ \E k \in DOMAIN diags : diags[k].at = n.id

\* the scopes around a node that are not Binders, outermost first
NonBinders(id) == SelectSeq(ChainAt(id), LAMBDA e : e.scope.s # "Binder")

\* the elided lifetimes visited so far whose innermost scope that is not a
\* Binder is an Elision scope with the Error policy
ElidedUnderError ==
    {o \in ElidedUses :
        /\ o.site # "Object"
        /\ NonBinders(o.id) # <<>>
        /\ LET e == NonBinders(o.id)[Len(NonBinders(o.id))]
           IN e.scope.s = "Elision" /\ e.scope.elide.e = "Error"}

\* those with Binder scopes only, or no scope at all, up to Root
ElidedAtRoot == {o \in ElidedUses : o.site # "Object" /\ NonBinders(o.id) = <<>>}

\* the lifetimes handed to resolve_elided_lifetimes together with o: the
\* lifetimes of its path when all of them are elided, o alone otherwise
Site(o) ==
    LET same == {u \in VisitedUses : Front(u.id) = Front(o.id)}
    IN IF \A u \in same : u.name = ElidedName THEN {u.id : u \in same} ELSE {o.id}

\* the E0106 errors that cover a lifetime
MissingErrors(id) ==
    {k \in DOMAIN diags :
        diags[k].level = "error" /\ diags[k].code = "E0106" /\ id \in diags[k].covers}

\* C21: an elided site under the Error policy, and one that reaches Root
\* through Binders only, gets exactly one E0106 error, which covers the
\* lifetimes of the site, and none of them gets a defs entry
MissingLifetimeReportedOnce ==
    \A o \in ElidedUnderError \cup ElidedAtRoot :
        /\ Cardinality(MissingErrors(o.id)) = 1
        /\ \A k \in MissingErrors(o.id) : diags[k].covers = Site(o)
        /\ o.id \notin DOMAIN defs

\* a visited fn with two elided arguments whose output has a site of one
\* elided lifetime and a path with two, each site reported once, and a
\* type parameter default whose elided lifetime reached Root
MissingLifetimeWitness ==
    /\ \E o \in ElidedUnderError : Cardinality(Site(o)) = 1 /\ Cardinality(MissingErrors(o.id)) = 1
    /\ \E o \in ElidedUnderError : Cardinality(Site(o)) = 2 /\ Cardinality(MissingErrors(o.id)) = 1
    /\ \E o \in ElidedAtRoot : Cardinality(MissingErrors(o.id)) = 1

\* the node ids of the closure expressions of a body
RECURSIVE BodyClosures(_, _)
RECURSIVE ExprsClosures(_, _)

ExprsClosures(exprs, at) ==
    UNION {LET ex == exprs[i]
               id == at \o <<i>>
           IN CASE ex.e = "Loop" -> ExprsClosures(ex.exprs, id)
                [] ex.e = "Closure" -> {id} \cup BodyClosures(ex.body, id \o <<4>>)
                [] OTHER -> {}
           : i \in DOMAIN exprs}

BodyClosures(body, b) == IF body = NoFnBody THEN {} ELSE ExprsClosures(body.exprs, b)

ItemClosures(item, p) ==
    CASE item.item \in {"Fn", "Static"} -> BodyClosures(item.body, p \o <<4>>)
      [] item.item \in {"Trait", "Impl"} ->
           UNION {IF item.inner[i].ai \in {"Method", "Const"}
                  THEN BodyClosures(item.inner[i].body, p \o <<7, i, 4>>) ELSE {}
                  : i \in DOMAIN item.inner}
      [] OTHER -> {}

VisitedClosures == UNION {ItemClosures(items[i], <<i>>) : i \in 1..(idx - 1)}

\* the elided lifetimes of the declared return types of the closures, those
\* inside a function-like type written there left out
ClosureOutputElided ==
    {o \in ElidedUses :
        /\ o.site # "Object"
        /\ \E cl \in VisitedClosures :
               /\ IsPrefix(cl \o <<2>>, o.id)
               /\ \A e \in Range(log) :
                      (IsPrefix(cl \o <<2>>, e.at) /\ IsPrefix(e.at, o.id)) => e.scope.s = "Binder"}

\* C22 as stated: an elided lifetime in the declared return type of a
\* closure is reported with a missing-lifetime-specifier error
ClosureOutputElidedReported ==
    \A o \in ClosureOutputElided : MissingErrors(o.id) # {}

\* C22 amended: no elision scope is opened for the return type of a closure,
\* so an elided lifetime there meets the Body scope of the body the closure
\* stands in: nothing is reported for it and nothing is recorded in defs
ClosureOutputElidedInferred ==
    \A o \in ClosureOutputElided :
        /\ DirectlyInBody(o.id)
        /\ ~Diagnosed(o.id)
        /\ o.id \notin DOMAIN defs

\* a visited closure |x: &i32| -> &i32: the elided lifetime of the argument
\* is recorded, that of the return type is neither recorded nor reported
ClosureOutputWitness ==
    \E cl \in VisitedClosures :
        /\ (cl \o <<1, 1, 0>>) \in DOMAIN defs
        /\ \E o \in ClosureOutputElided :
               o.id = cl \o <<2, 0>> /\ o.id \notin DOMAIN defs /\ ~Diagnosed(o.id)

\* the Elision scopes pushed with the Exact policy
ExactScopes == {e \in Range(log) : e.scope.s = "Elision" /\ e.scope.elide.e = "Exact"}

\* C23: under an Exact(r) policy every elided lifetime that the scope
\* resolves is recorded as r shifted by the number of Binder scopes between
\* the scope and the lifetime
ExactOutputIsShiftedRegion ==
    \A e \in ExactScopes : \A o \in ElidedUnder(e.at) :
        /\ o.id \in DOMAIN defs
        /\ defs[o.id] =
               IF e.scope.elide.region.r \in {"LateBound", "LateBoundAnon"}
               THEN [e.scope.elide.region EXCEPT !.depth = @ + BindersBetween(e.at, o.id)]
               ELSE e.scope.elide.region

\* fn f(x: &i32) -> (&i32, Box<for<'c> Trait<'_>>) visited: the argument's
\* lifetime and the first of the output are LateBoundAnon(1, 0), the one
\* under the for<> is LateBoundAnon(2, 0)
ExactOutputWitness ==
    \E e \in ExactScopes :
        /\ e.scope.elide.region = LateBoundAnon(1, 0)
        /\ (Front(e.at) \o <<1, 1, 0>>) \in DOMAIN defs
        /\ defs[Front(e.at) \o <<1, 1, 0>>] = LateBoundAnon(1, 0)
        /\ \E o \in ElidedUnder(e.at) :
               /\ BindersBetween(e.at, o.id) = 0
               /\ o.id \in DOMAIN defs /\ defs[o.id] = LateBoundAnon(1, 0)
        /\ \E o \in ElidedUnder(e.at) :
               /\ BindersBetween(e.at, o.id) = 1
               /\ o.id \in DOMAIN defs /\ defs[o.id] = LateBoundAnon(2, 0)

\* C24: every LateBound or LateBoundAnon region recorded in defs or chosen
\* as an Exact policy has depth at least 1: from_depth never went below
\* the binder depth of the lifetime it normalized
LateDepthAtLeastOne ==
    /\ \A id \in DOMAIN defs :
           defs[id].r \in {"LateBound", "LateBoundAnon"} => defs[id].depth >= 1
    /\ \A e \in ExactScopes :
           e.scope.elide.region.r \in {"LateBound", "LateBoundAnon"} =>
               e.scope.elide.region.depth >= 1

\* an Exact policy of depth 1 chosen from an argument lifetime recorded with
\* depth 2, under a binder inside the argument: from_depth took 1 off
LateDepthWitness ==
    \E e \in ExactScopes : \E o \in VisitedUses :
        /\ IsPrefix(Front(e.at) \o <<1>>, o.id)
        /\ o.id \in DOMAIN defs
        /\ defs[o.id].r \in {"LateBound", "LateBoundAnon"}
        /\ defs[o.id].depth = 2
        /\ e.scope.elide.region = [defs[o.id] EXCEPT !.depth = 1]

\* the bodies walked so far, by node id
VisitedBodies == {e.at : e \in {x \in Range(log) : x.scope.s = "Body"}}

\* the labelled loops of body b, as the entries extract_labels pushes
LabelsOfBody(b) == {<<n.label, n.id>> : n \in {m \in VisitedLabels : m.body = b}}

\* the list handed to the scope of log entry e is that of the innermost body
\* around it, and empty outside every body
HoldsLabelsOfItsBody(e) ==
    LET bs == {b \in VisitedBodies : IsPrefix(b, e.at)}
    IN IF bs = {} THEN e.labels = <<>>
       ELSE LET b == CHOOSE x \in bs : \A y \in bs : Len(y) <= Len(x)
            IN /\ Range(e.labels) = LabelsOfBody(b)
               /\ Len(e.labels) = Cardinality(LabelsOfBody(b))

\* C25: visit_nested_body leaves labels_in_fn as it found it (empty between
\* items), and every scope entered by with() receives exactly the loop
\* labels of the innermost body around it: none of the enclosing body, none
\* of a nested closure body, none lost in an earlier with()
LabelsFollowBodies ==
    /\ labels_in_fn = <<>>
    /\ \A k \in DOMAIN log : HoldsLabelsOfItsBody(log[k])
LabelsFollowBodiesWitness ==
    \E j, k \in DOMAIN log :
        /\ j < k
        /\ log[j].scope.s = "Binder" /\ log[k].scope.s = "Binder"
        /\ Len(log[j].labels) = 1 /\ Len(log[k].labels) = 1
        /\ log[j].labels[1][1] # log[k].labels[1][1]
        /\ \E b \in VisitedBodies, cb \in VisitedBodies :
               /\ IsPrefix(b, cb) /\ b # cb
               /\ IsPrefix(cb, log[j].at)
               /\ IsPrefix(b, log[k].at) /\ ~IsPrefix(cb, log[k].at)

\* the recorded lifetimes inside the argument type at the node arg
UsesInArgument(arg) == {u \in VisitedUses : IsPrefix(arg, u.id) /\ u.id \in DOMAIN defs}

\* the lifetime at u is bound by a Binder the walker pushed inside arg
BoundInsideArgument(arg, u) ==
    IsLate(defs[u.id]) /\ defs[u.id].depth <= BindersBetween(arg, u.id)

\* the lifetimes of the argument at arg that no Binder inside it binds,
\* normalized to the outside of the argument
FreeInArgument(arg) ==
    {from_depth(defs[u.id], BindersBetween(arg, u.id) + 1)
     : u \in {v \in UsesInArgument(arg) : ~BoundInsideArgument(arg, v)}}

\* the same over the arguments of the construct at p that count for elision
FreeInArguments(p) ==
    UNION {FreeInArgument(SubSeq(u.id, 1, Len(p) + 2))
           : u \in {v \in UsesInArgument(p \o <<1>>) :
                       ~(HasSelfAt(p) /\ v.id[Len(p) + 2] = 1)}}

\* C26: what GatherLifetimes reports for an argument is what the walker's
\* Binders inside that argument give: have_bound_regions says that some
\* lifetime is bound by a Binder inside the argument, and the lifetimes
\* counted are the others, normalized; so the policy is Exact(r) when these
\* are one lifetime r in all, and the failure records of an Error policy
\* hold their number and the flag, argument by argument
GatherFollowsWalkerBinders ==
    \A e \in OutputScopes :
        LET p == Front(e.at)
        IN (~IsForeignAt(p) /\ ~SelfRuleAt(p)) =>
               /\ e.scope.elide.e = "Error" =>
                      \A k \in DOMAIN e.scope.elide.info :
                          LET r == e.scope.elide.info[k]
                              arg == p \o <<1, r.index + 1>>
                          IN /\ r.lifetime_count = Cardinality(FreeInArgument(arg))
                             /\ r.have_bound_regions =
                                    \E u \in UsesInArgument(arg) : BoundInsideArgument(arg, u)
               /\ e.scope.elide.e = "Exact" =>
                      FreeInArguments(p) = {e.scope.elide.region}

\* the Binder scopes pushed so far
BinderScopes == {e \in Range(log) : e.scope.s = "Binder"}

\* C27: the name table of every Binder scope holds only EarlyBound regions
\* and LateBound regions of depth 1, never Static, LateBoundAnon or Free:
\* every binding a lookup can find has a node id
BinderTablesHoldDeclarations ==
    \A e \in BinderScopes :
        \A n \in DOMAIN e.scope.lifetimes :
            LET reg == e.scope.lifetimes[n]
            IN /\ \/ reg.r = "EarlyBound"
                  \/ reg.r = "LateBound" /\ reg.depth = 1
               /\ Region_id(reg) # NoId
\* a Binder with an early-bound and a late-bound lifetime, a Binder of a
\* bare-fn type or trait reference inside it, and a use looked up through
\* the inner Binder in the outer one
BinderTablesWitness ==
    \E e, f \in BinderScopes : \E o, u \in VisitedUses :
        /\ e.at # f.at /\ IsPrefix(e.at, f.at)
        /\ IsPrefix(f.at, o.id) /\ IsPrefix(f.at, u.id)
        /\ f.scope.lifetimes # EmptyMap
        /\ o.name \in DOMAIN e.scope.lifetimes /\ o.name \notin DOMAIN f.scope.lifetimes
        /\ u.name \in DOMAIN e.scope.lifetimes /\ u.name \notin DOMAIN f.scope.lifetimes
        /\ e.scope.lifetimes[o.name].r = "LateBound"
        /\ e.scope.lifetimes[u.name].r = "EarlyBound"
        /\ o.id \in DOMAIN defs /\ u.id \in DOMAIN defs
        /\ defs[o.id] = [e.scope.lifetimes[o.name] EXCEPT !.depth = 2]
        /\ defs[u.id] = e.scope.lifetimes[u.name]

\* the declarations whose output policy comes from the count of the
\* argument lifetimes: with an output, not foreign, without the &self rule
CountedDecls ==
    {d \in VisitedFnDecls :
        d.f.output # NoTy /\ d.kind # "ForeignItem" /\ ~SelfRuleAt(d.p)}

\* the fold of visit_fn_like_elision over the arguments of d
FoldOf(d) ==
    ArgLifetimes(defs, d.f.inputs, d.p \o <<1>>, IF HasSelfAt(d.p) THEN 2 ELSE 1,
                 [count |-> 0, region |-> <<>>, info |-> <<>>])

\* the set GatherLifetimes collects for argument i of d
GatheredIn(d, i) == Gather_visit_ty(defs, d.f.inputs[i], d.p \o <<1, i>>, 1).lifetimes

\* C28: when the fold over the arguments ends with lifetime_count = 1,
\* possible_implied_output_region is set: it is the one lifetime of the only
\* counted argument that has any, and the output gets Exact of it
CountOneHasRegion ==
    \A d \in CountedDecls :
        LET acc == FoldOf(d)
            counted == {i \in DOMAIN d.f.inputs : ~(HasSelfAt(d.p) /\ i = 1)}
        IN acc.count = 1 =>
               /\ acc.region # <<>>
               /\ \E i \in counted :
                      /\ GatheredIn(d, i) = {acc.region[1]}
                      /\ \A j \in counted \ {i} : GatheredIn(d, j) = {}
               /\ \E e \in OutputScopes :
                      e.at = d.p \o <<2>> /\ e.scope.elide = Exact(acc.region[1])
\* a declaration whose first argument has one lifetime and whose second,
\* folded after it, has none: the count is still 1 and the output is Exact
CountOneWitness ==
    \E d \in CountedDecls :
        /\ Len(d.f.inputs) = 2
        /\ FoldOf(d).count = 1
        /\ Cardinality(GatheredIn(d, 1)) = 1
        /\ GatheredIn(d, 2) = {}
        /\ \E e \in OutputScopes : e.at = d.p \o <<2>> /\ e.scope.elide.e = "Exact"

====
